---- MODULE Spec2Model ----
(***************************************************************************)
(* polyforecast: the news aggregator (src/news/client.py), the token       *)
(* bucket and the forecasting engine's LLM call (src/utils/rate_limiter.py,*)
(* src/forecasting/engine.py), the prediction repository                   *)
(* (src/database/repository.py) and the Kelly stake                        *)
(* (src/forecasting/ev_calculator.py), each as a state machine of its own  *)
(* over the variables below. A specification of one component leaves the   *)
(* variables of the others at their initial values.                        *)
(***************************************************************************)
EXTENDS Integers, Sequences, FiniteSets, TLC

VARIABLES
    \* ---- NewsClient.fetch_articles_for_market
    provStatus,     \* provider -> "pending" | "ok" | "failed"
    provResult,     \* provider -> the list its call returned (<<>> until then)
    max_articles,   \* the max_articles argument of the call
    newsPc,         \* "gathering" | "returned" | "raised"
    fetched,        \* the list the call returned
    \* ---- AsyncTokenBucket and the tasks that call acquire
    tokens,         \* _tokens, in units (TokenUnits units are 1.0 token)
    elapsed,        \* monotonic() - _last_refill in seconds, saturated
    lock,           \* _lock: 0 when free, else the task that holds it
    pc,             \* task -> where the task is
    want,           \* task -> the tokens argument of its acquire call
    remaining,      \* task -> seconds left of its asyncio.sleep(wait)
    taken,          \* task -> units its acquire call was granted
    requests,       \* task -> LLM requests its analyze_market has issued
    \* ---- Repository: the predictions table and the calls made on it
    rows,           \* the predictions table, in id order
    now,            \* datetime.now(), in ticks
    lastCall,       \* the last call made: what, its arguments, what it returned
    resolvedSince,  \* markets resolved with no prediction saved since
    \* ---- compute_kelly and the call made on it
    bot_prob,       \* the bot_prob argument, a fraction <<numerator, denominator>>
    market_prob,    \* the market_prob argument, a fraction
    kelly_fraction, \* what the call returned, a fraction in lowest terms
    kellyPc,        \* "called" | "returned"
    \* ---- classify_recommendation and the call made on it
    ev,             \* the ev argument, a fraction
    recommendation, \* what the call returned
    classifyPc,     \* "called" | "returned"
    \* ---- analyze_market, run twice: what each run is given and produces
    market,         \* run -> the Market argument
    articles,       \* run -> what fetch_articles_for_market returned to it
    response,       \* run -> the text of the LLM response
    user_prompt,    \* run -> the system and user prompt sent (<<>> until then)
    probs,          \* run -> what _parse_probabilities returned
    forecast,       \* run -> the ForecastResult returned (<<>> until then)
    anPc,           \* run -> "called" | "returned"
    \* ---- extract_search_queries and the call made on it
    questionText,   \* the question argument, a sequence of characters
    queries,        \* what the call returned, a list of character sequences
    queryPc,        \* "called" | "returned"
    \* ---- the clock of the rate limiter and the acquire calls that returned
    monotonic,      \* time.monotonic(), in seconds since the bucket was made
    returnTimes,    \* the times at which an acquire call returned, in order
    \* ---- two concurrent resolve_prediction calls on one Repository
    resolvePc,      \* caller -> "idle" | "updating" | "returned"
    selected,       \* caller -> the ids its SELECT fetched, not yet updated
    winner,         \* caller -> its winning_outcome argument
    count,          \* caller -> its count
    writers,        \* row id -> the callers whose UPDATE has written the row
    \* ---- fetch_articles_for_market called twice on the same provider results
    outcomeOf,      \* provider -> what its coroutine ends with, in both calls
    completedIn,    \* call -> the providers done so far, in completion order
    returnedList,   \* call -> the list the call returned (<<>> until then)
    gatherPc,       \* call -> "gathering" | "returned"
    \* ---- evaluate_outcome and ForecastResult.best_opportunity
    outcome_forecasts,  \* the OutcomeForecasts of a ForecastResult, so far
    best,               \* best_opportunity as read: <<>> until then, else
                        \* <<None>> or <<the OutcomeForecast>>
    \* ---- _parse_probabilities called on a text and a list of outcomes
    parseText,      \* the argument text
    parseOutcomes,  \* the argument outcomes
    parsed,         \* the dict returned (<<>> until then)
    parsePc         \* "called" | "returned"

newsVars == <<provStatus, provResult, max_articles, newsPc, fetched>>
bucketVars == <<tokens, elapsed, lock, pc, want, remaining, taken, requests>>
repoVars == <<rows, now, lastCall, resolvedSince>>
kellyVars == <<bot_prob, market_prob, kelly_fraction, kellyPc>>
classifyVars == <<ev, recommendation, classifyPc>>
analysisVars == <<market, articles, response, user_prompt, probs, forecast, anPc>>
queryVars == <<questionText, queries, queryPc>>
rateVars == <<monotonic, returnTimes>>
resolveVars == <<resolvePc, selected, winner, count, writers>>
orderVars == <<outcomeOf, completedIn, returnedList, gatherPc>>
evalVars == <<outcome_forecasts, best>>
parseVars == <<parseText, parseOutcomes, parsed, parsePc>>

\* What a step of one component leaves alone: the other components.
notNews ==
    <<bucketVars, repoVars, kellyVars, classifyVars, analysisVars,
      queryVars, rateVars, resolveVars, orderVars, evalVars, parseVars>>
notBucket ==
    <<newsVars, repoVars, kellyVars, classifyVars, analysisVars, queryVars,
      rateVars, resolveVars, orderVars, evalVars, parseVars>>
notRepo ==
    <<newsVars, bucketVars, kellyVars, classifyVars, analysisVars,
      queryVars, rateVars, resolveVars, orderVars, evalVars, parseVars>>
notKelly ==
    <<newsVars, bucketVars, repoVars, classifyVars, analysisVars, queryVars,
      rateVars, resolveVars, orderVars, evalVars, parseVars>>
notClassify ==
    <<newsVars, bucketVars, repoVars, kellyVars, analysisVars, queryVars,
      rateVars, resolveVars, orderVars, evalVars, parseVars>>
notAnalysis ==
    <<newsVars, bucketVars, repoVars, kellyVars, classifyVars, queryVars,
      rateVars, resolveVars, orderVars, evalVars, parseVars>>
notQuery ==
    <<newsVars, bucketVars, repoVars, kellyVars, classifyVars, analysisVars,
      rateVars, resolveVars, orderVars, evalVars, parseVars>>
notRate ==
    <<newsVars, bucketVars, repoVars, kellyVars, classifyVars, analysisVars,
      queryVars, resolveVars, orderVars, evalVars, parseVars>>
notResolve ==
    <<newsVars, bucketVars, repoVars, kellyVars, classifyVars, analysisVars,
      queryVars, rateVars, orderVars, evalVars, parseVars>>
notOrder ==
    <<newsVars, bucketVars, repoVars, kellyVars, classifyVars, analysisVars,
      queryVars, rateVars, resolveVars, evalVars, parseVars>>
notEval ==
    <<newsVars, bucketVars, repoVars, kellyVars, classifyVars, analysisVars,
      queryVars, rateVars, resolveVars, orderVars, parseVars>>
notParse ==
    <<newsVars, bucketVars, repoVars, kellyVars, classifyVars, analysisVars,
      queryVars, rateVars, resolveVars, orderVars, evalVars>>

vars ==
    <<provStatus, provResult, max_articles, newsPc, fetched,
      tokens, elapsed, lock, pc, want, remaining, taken, requests,
      rows, now, lastCall, resolvedSince,
      bot_prob, market_prob, kelly_fraction, kellyPc,
      ev, recommendation, classifyPc,
      market, articles, response, user_prompt, probs, forecast, anPc,
      questionText, queries, queryPc,
      monotonic, returnTimes,
      resolvePc, selected, winner, count, writers,
      outcomeOf, completedIn, returnedList, gatherPc,
      outcome_forecasts, best,
      parseText, parseOutcomes, parsed, parsePc>>

Min(a, b) == IF a <= b THEN a ELSE b
Max(a, b) == IF a >= b THEN a ELSE b
Range(seq) == { seq[i] : i \in 1..Len(seq) }

(***************************************************************************)
(* News aggregation                                                        *)
(***************************************************************************)

\* The five coroutines handed to asyncio.gather, in argument order:
\* newsapi, guardian, google_rss, gdelt, rss_feeds.
NumProviders == 5
Providers == 1..NumProviders

\* Bound: the total number of articles the providers return in one call.
MaxTotal == 2

\* published_at is <<>> for None and <<t>> for a timestamp t >= 1.
Article(u, p, t) == [url |-> u, published_at |-> p, title |-> t]

\* The articles a provider may return: two with the same URL and different
\* metadata, one whose URL differs from theirs in case only and has no
\* timestamp, one with an empty URL.
ArticleSet ==
    { Article("u1", <<2>>, "t1"),
      Article("u1", <<1>>, "t2"),
      Article("U1", <<>>,  "t1"),
      Article("",   <<2>>, "t3") }

RECURSIVE SeqsUpTo(_, _)
SeqsUpTo(S, n) ==
    IF n = 0 THEN { <<>> }
    ELSE LET shorter == SeqsUpTo(S, n - 1)
         IN  shorter \cup { Append(s, x) : s \in { t \in shorter : Len(t) = n - 1 }, x \in S }

ResultLists == SeqsUpTo(ArticleSet, MaxTotal)

\* The lists of the runs that look at when the call returns: at most one
\* article per provider, with or without a timestamp.
ShortLists == SeqsUpTo({ a \in ArticleSet : a.title = "t1" }, 1)

RECURSIVE SumLen(_, _)
SumLen(res, p) == IF p = 0 THEN 0 ELSE Len(res[p]) + SumLen(res, p - 1)

\* return_exceptions=True: gather hands an exception back as a result.
ReturnExceptionsOff == FALSE
ReturnExceptions == TRUE

\* results of asyncio.gather, by argument position: a list, or the tag of
\* an exception object.
Gathered(status, res) ==
    [p \in Providers |-> IF status[p] = "ok" THEN [exc |-> FALSE, list |-> res[p]]
                         ELSE [exc |-> TRUE, list |-> <<>>]]

\* The merge without the seen_urls test: every article with a URL is kept.
RECURSIVE MergeListNoDedup(_, _, _)
MergeListNoDedup(list, i, acc) ==
    IF i > Len(list) THEN acc
    ELSE LET art == list[i]
         IN  IF art.url # ""
             THEN MergeListNoDedup(list, i + 1,
                      [seen_urls |-> acc.seen_urls \cup {art.url},
                       articles  |-> Append(acc.articles, art)])
             ELSE MergeListNoDedup(list, i + 1, acc)

\* for art in result: if art.url and art.url not in seen_urls: ...
RECURSIVE MergeList(_, _, _)
MergeList(list, i, acc) ==
    IF i > Len(list) THEN acc
    ELSE LET art == list[i]
         IN  IF art.url # "" /\ art.url \notin acc.seen_urls
             THEN MergeList(list, i + 1,
                      [seen_urls |-> acc.seen_urls \cup {art.url},
                       articles  |-> Append(acc.articles, art)])
             ELSE MergeList(list, i + 1, acc)

\* for result in results: if isinstance(result, Exception): continue
RECURSIVE MergeResults(_, _, _)
MergeResults(results, p, acc) ==
    IF p > NumProviders THEN acc
    ELSE IF results[p].exc THEN MergeResults(results, p + 1, acc)
    ELSE MergeResults(results, p + 1, MergeList(results[p].list, 1, acc))

MergeDedup(results) ==
    MergeResults(results, 1, [seen_urls |-> {}, articles |-> <<>>]).articles

\* key=lambda a: a.published_at or datetime.min (datetime.min is 0 here)
SortKey(a) == IF a.published_at = <<>> THEN 0 ELSE a.published_at[1]

\* list.sort(key=..., reverse=True) is stable: an element goes after
\* every element whose key is greater or equal.
RECURSIVE InsertByRecency(_, _)
InsertByRecency(sorted, a) ==
    IF sorted = <<>> THEN <<a>>
    ELSE IF SortKey(Head(sorted)) >= SortKey(a)
         THEN <<Head(sorted)>> \o InsertByRecency(Tail(sorted), a)
         ELSE <<a>> \o sorted

RECURSIVE SortByRecency(_)
SortByRecency(list) ==
    IF list = <<>> THEN <<>>
    ELSE InsertByRecency(SortByRecency(SubSeq(list, 1, Len(list) - 1)), list[Len(list)])

\* articles[:max_articles] for max_articles >= 0
Truncate(list, n) == SubSeq(list, 1, Min(n, Len(list)))

\* The cap applied to the merged list before the sort.
FetchResultCapFirst(status, res, n) ==
    SortByRecency(Truncate(MergeDedup(Gathered(status, res)), n))

FetchResult(status, res, n) ==
    Truncate(SortByRecency(MergeDedup(Gathered(status, res))), n)

InitNews ==
    /\ provStatus = [p \in Providers |-> "pending"]
    /\ provResult = [p \in Providers |-> <<>>]
    /\ max_articles \in 0..MaxTotal
    /\ newsPc = "gathering"
    /\ fetched = <<>>

\* A provider coroutine returns a list of articles.
ProviderReturns(p, lists) ==
    /\ newsPc = "gathering"
    /\ provStatus[p] = "pending"
    /\ \E list \in lists :
          /\ SumLen(provResult, NumProviders) + Len(list) <= MaxTotal
          /\ provResult' = [provResult EXCEPT ![p] = list]
    /\ provStatus' = [provStatus EXCEPT ![p] = "ok"]
    /\ UNCHANGED <<max_articles, newsPc, fetched, notNews>>

\* A provider coroutine raises (an error, or its request timeout).
ProviderRaises(p) ==
    /\ newsPc = "gathering"
    /\ provStatus[p] = "pending"
    /\ provStatus' = [provStatus EXCEPT ![p] = "failed"]
    /\ UNCHANGED <<provResult, max_articles, newsPc, fetched, notNews>>

\* A gather that counts only a child that returned a list as done.
SettledOnlyOk(p) == provStatus[p] = "ok"

\* A child of the gather is done: it returned or it raised.
Settled(p) == provStatus[p] \in {"ok", "failed"}

\* await asyncio.gather(...) resumes when every child is done; the rest of
\* fetch_articles_for_market runs without another await.
GatherReturns ==
    /\ newsPc = "gathering"
    /\ \A p \in Providers : Settled(p)
    /\ IF ReturnExceptions \/ \A p \in Providers : provStatus[p] = "ok"
       THEN /\ newsPc' = "returned"
            /\ fetched' = FetchResult(provStatus, provResult, max_articles)
       ELSE /\ newsPc' = "raised"
            /\ fetched' = <<>>
    /\ UNCHANGED <<provStatus, provResult, max_articles, notNews>>

(***************************************************************************)
(* AsyncTokenBucket                                                        *)
(***************************************************************************)

\* Settings.anthropic_rpm = 30: ForecastingEngine builds the bucket with
\* rate = 30 / 60.0 tokens a second, RateUnits / TokenUnits in units.
RateUnits == 1
TokenUnits == 2

\* Bound: the tasks that run concurrently; each calls acquire once.
NumTasks == 3
Tasks == 1..NumTasks

\* self._capacity = max(capacity or rate, 1.0), capacity being None
CapacityUnits == Max(RateUnits, TokenUnits)

\* Past this many seconds since the last refill, _refill fills to capacity.
ElapsedCap == (CapacityUnits + RateUnits - 1) \div RateUnits

\* The amounts a caller may ask for: up to the capacity.
Amounts == 1..CapacityUnits

InitBucket ==
    /\ tokens = CapacityUnits
    /\ elapsed = 0
    /\ lock = 0
    /\ pc = [i \in Tasks |-> "idle"]
    /\ want = [i \in Tasks |-> 0]
    /\ remaining = [i \in Tasks |-> 0]
    /\ taken = [i \in Tasks |-> 0]
    /\ requests = [i \in Tasks |-> 0]

\* The refill without the cap at the capacity.
RefilledUncapped(tok, el) == tok + el * RateUnits

\* min(self._capacity, self._tokens + elapsed * self._rate)
Refilled(tok, el) == Min(CapacityUnits, tok + el * RateUnits)

\* wait = (tokens - self._tokens) / self._rate, in whole seconds: the sleep
\* lasts at least that long.
WaitFor(n, tok) == (n - tok + RateUnits - 1) \div RateUnits

\* A lock that is handed out whether or not it is held.
LockFreeAlways(i) == TRUE

\* asyncio.Lock: acquire goes through only when the lock is not held.
LockFree(i) == lock = 0

\* A task that has not called yet awaits acquire(n).
CallAcquire(i, n) ==
    /\ pc[i] = "idle"
    /\ want' = [want EXCEPT ![i] = n]
    /\ pc' = [pc EXCEPT ![i] = "lock"]
    /\ UNCHANGED <<tokens, elapsed, lock, remaining, taken, requests, notBucket>>

\* async with self._lock: enter
EnterLock(i) ==
    /\ pc[i] = "lock"
    /\ LockFree(i)
    /\ lock' = i
    /\ pc' = [pc EXCEPT ![i] = "refill"]
    /\ UNCHANGED <<tokens, elapsed, want, remaining, taken, requests, notBucket>>

\* self._refill()
Refill(i) ==
    /\ pc[i] = "refill"
    /\ tokens' = Refilled(tokens, elapsed)
    /\ elapsed' = 0
    /\ pc' = [pc EXCEPT ![i] = "check"]
    /\ UNCHANGED <<lock, want, remaining, taken, requests, notBucket>>

\* The check with the sleep inside the async with block: the lock stays held.
CheckSleepInLock(i) ==
    /\ pc[i] = "check"
    /\ IF tokens >= want[i]
       THEN /\ pc' = [pc EXCEPT ![i] = "take"]
            /\ UNCHANGED <<lock, remaining>>
       ELSE /\ remaining' = [remaining EXCEPT ![i] = WaitFor(want[i], tokens)]
            /\ lock' = lock
            /\ pc' = [pc EXCEPT ![i] = "sleep"]
    /\ UNCHANGED <<tokens, elapsed, want, taken, requests, notBucket>>

\* if self._tokens >= tokens: ... else: wait = ...; leave the lock, sleep
Check(i) ==
    /\ pc[i] = "check"
    /\ IF tokens >= want[i]
       THEN /\ pc' = [pc EXCEPT ![i] = "take"]
            /\ UNCHANGED <<lock, remaining>>
       ELSE /\ remaining' = [remaining EXCEPT ![i] = WaitFor(want[i], tokens)]
            /\ lock' = IF lock = i THEN 0 ELSE lock
            /\ pc' = [pc EXCEPT ![i] = "sleep"]
    /\ UNCHANGED <<tokens, elapsed, want, taken, requests, notBucket>>

\* self._tokens -= tokens; return (leaving the lock)
TakeStep(i) ==
    /\ pc[i] = "take"
    /\ tokens' = tokens - want[i]
    /\ taken' = [taken EXCEPT ![i] = @ + want[i]]
    /\ lock' = IF lock = i THEN 0 ELSE lock
    /\ pc' = [pc EXCEPT ![i] = "acquired"]
    /\ UNCHANGED <<elapsed, want, remaining, requests>>

Take(i) == TakeStep(i) /\ UNCHANGED notBucket

\* await asyncio.sleep(wait) is over; the loop starts again.
Wake(i) ==
    /\ pc[i] = "sleep"
    /\ remaining[i] = 0
    /\ pc' = [pc EXCEPT ![i] = "lock"]
    /\ UNCHANGED <<tokens, elapsed, lock, want, remaining, taken, requests, notBucket>>

\* A second of time.monotonic() passes.
TickStep ==
    /\ elapsed' = Min(elapsed + 1, ElapsedCap)
    /\ remaining' = [i \in Tasks |-> Max(remaining[i] - 1, 0)]
    /\ UNCHANGED <<tokens, lock, pc, want, taken, requests>>

\* Time is followed as long as it changes what _refill or a sleeper sees.
Tick ==
    /\ \/ elapsed < ElapsedCap
       \/ \E i \in Tasks : remaining[i] > 0
    /\ TickStep
    /\ UNCHANGED notBucket

AcquireStep(i) ==
    \/ EnterLock(i)
    \/ Refill(i)
    \/ Check(i)
    \/ Take(i)
    \/ Wake(i)

NextBucket ==
    \/ \E i \in Tasks, n \in Amounts : CallAcquire(i, n)
    \/ \E i \in Tasks : AcquireStep(i)
    \/ Tick

(***************************************************************************)
(* ForecastingEngine.analyze_market, one invocation per task               *)
(***************************************************************************)

\* analyze_market is called and awaits fetch_articles_for_market.
BeginAnalysis(i) ==
    /\ pc[i] = "idle"
    /\ pc' = [pc EXCEPT ![i] = "news"]
    /\ UNCHANGED <<tokens, elapsed, lock, want, remaining, taken, requests, notBucket>>

\* The articles are back, the prompt is built: await self._rate_limiter.acquire()
\* with the default tokens=1.0.
NewsFetched(i) ==
    /\ pc[i] = "news"
    /\ want' = [want EXCEPT ![i] = TokenUnits]
    /\ pc' = [pc EXCEPT ![i] = "lock"]
    /\ UNCHANGED <<tokens, elapsed, lock, remaining, taken, requests, notBucket>>

\* acquire has returned: await self._anthropic.messages.create(...)
IssueRequest(i) ==
    /\ pc[i] = "acquired"
    /\ requests' = [requests EXCEPT ![i] = @ + 1]
    /\ pc' = [pc EXCEPT ![i] = "llm"]
    /\ UNCHANGED <<tokens, elapsed, lock, want, remaining, taken, notBucket>>

\* The response arrives; the rest of analyze_market has no await and
\* returns the ForecastResult.
LLMResponds(i) ==
    /\ pc[i] = "llm"
    /\ pc' = [pc EXCEPT ![i] = "done"]
    /\ UNCHANGED <<tokens, elapsed, lock, want, remaining, taken, requests, notBucket>>

\* A failed request caught and tried again from the acquire.
LLMFailsRetry(i) ==
    /\ pc[i] = "llm"
    /\ pc' = [pc EXCEPT ![i] = IF requests[i] < 2 THEN "lock" ELSE "failed"]
    /\ UNCHANGED <<tokens, elapsed, lock, want, remaining, taken, requests, notBucket>>

\* messages.create raises: nothing in analyze_market catches it.
LLMFails(i) ==
    /\ pc[i] = "llm"
    /\ pc' = [pc EXCEPT ![i] = "failed"]
    /\ UNCHANGED <<tokens, elapsed, lock, want, remaining, taken, requests, notBucket>>

NextEngine ==
    \/ \E i \in Tasks : BeginAnalysis(i)
    \/ \E i \in Tasks : NewsFetched(i)
    \/ \E i \in Tasks : AcquireStep(i)
    \/ \E i \in Tasks : IssueRequest(i)
    \/ \E i \in Tasks : LLMResponds(i)
    \/ \E i \in Tasks : LLMFails(i)
    \/ Tick

(***************************************************************************)
(* The token bucket with its clock: concurrent acquire(1) calls, the time  *)
(* at which each returns being recorded.                                   *)
(***************************************************************************)

\* Bound: the seconds of time.monotonic() that are followed.
MaxTime == 5

\* What a step of the bucket and its clock leaves alone.
notBucketNorRate ==
    <<newsVars, repoVars, kellyVars, classifyVars, analysisVars, queryVars,
      resolveVars, orderVars, evalVars, parseVars>>

InitRate ==
    /\ monotonic = 0
    /\ returnTimes = <<>>

\* acquire returns: the time of the return is recorded.
TimedTake(i) ==
    /\ TakeStep(i)
    /\ returnTimes' = Append(returnTimes, monotonic)
    /\ UNCHANGED <<monotonic, notBucketNorRate>>

\* A second passes on the clock. From the time.monotonic() of _refill to the
\* return or to the end of the async with block the code has no await and
\* runs in far less than a second: no second passes while the lock is held.
TimedTick ==
    /\ monotonic < MaxTime
    /\ lock = 0
    /\ TickStep
    /\ monotonic' = monotonic + 1
    /\ UNCHANGED <<returnTimes, notBucketNorRate>>

\* acquire(1), called by a task at any time.
NextRate ==
    \/ \E i \in Tasks : CallAcquire(i, TokenUnits)
    \/ \E i \in Tasks : EnterLock(i)
    \/ \E i \in Tasks : Refill(i)
    \/ \E i \in Tasks : Check(i)
    \/ \E i \in Tasks : Wake(i)
    \/ \E i \in Tasks : TimedTake(i)
    \/ TimedTick

IdleRate == InitRate

(***************************************************************************)
(* Repository: save_prediction and resolve_prediction                      *)
(***************************************************************************)

\* Bounds: rows of the table, outcomes of one saved forecast, clock ticks,
\* and the grid of bot_probability (a probability p is p / ProbScale).
MaxRows == 2
MaxOutcomes == 2
MaxClock == 1
ProbScale == 10

Conditions == {"m1", "m2"}
WinningLabels == {"Yes", "No"}
\* (outcome, bot_probability, recommendation) of an outcome forecast, 8 being
\* 0.8 and 3 being 0.3; one outcome is spelled in lower case.
OutcomeForecasts ==
    { <<"Yes", 8, "BUY">>, <<"No", 3, "HOLD">>, <<"yes", 3, "STRONG_BUY">> }

\* str.lower()
Lower(str) ==
    CASE str \in {"Yes", "YES", "yes"} -> "yes"
      [] str \in {"No", "NO", "no"} -> "no"
      [] str \in {"Trump", "trump"} -> "trump"
      [] str \in {"Donald Trump", "donald trump"} -> "donald trump"
      [] str \in {"Harris", "harris"} -> "harris"
      [] OTHER -> str

\* Python's None and SQL's NULL.
None == <<>>

\* A row as INSERT leaves it: resolved 0, the resolution columns NULL.
NewRow(c, o, p, r, u) ==
    [condition_id |-> c, outcome |-> o, bot_probability |-> p,
     recommendation |-> r, resolved |-> 0,
     actual_outcome |-> None, resolution_date |-> None,
     brier_component |-> None, telegram_user_id |-> u]

\* The outcome forecasts of one ForecastResult: (outcome, bot_probability).
Forecasts ==
    { f \in SeqsUpTo(OutcomeForecasts, MaxOutcomes) : Len(f) >= 1 }

InitRepo ==
    /\ rows = <<>>
    /\ now = 0
    /\ lastCall = [op |-> "none", condition_id |-> "", winning_outcome |-> "",
                   ret |-> 0]
    /\ resolvedSince = {}

\* save_prediction(result, telegram_user_id = u): one INSERT per outcome,
\* then commit.
SavePrediction(c, f, u) ==
    /\ Len(rows) + Len(f) <= MaxRows
    /\ rows' = rows \o [k \in 1..Len(f) |-> NewRow(c, f[k][1], f[k][2], f[k][3], u)]
    /\ lastCall' = [op |-> "save", condition_id |-> c, winning_outcome |-> "",
                    ret |-> Len(f)]
    /\ resolvedSince' = resolvedSince \ {c}
    /\ UNCHANGED <<now, notRepo>>

\* A SELECT that leaves out "AND resolved = 0".
SelectedAnyRow(c) == { k \in 1..Len(rows) : rows[k].condition_id = c }

\* SELECT id, outcome, bot_probability FROM predictions
\* WHERE condition_id = ? AND resolved = 0
Selected(c) ==
    { k \in 1..Len(rows) : rows[k].condition_id = c /\ rows[k].resolved = 0 }

\* The comparison without the two lower() calls.
ActualExactCase(outcome, w) == IF outcome = w THEN 1 ELSE 0

\* actual = 1.0 if row["outcome"].lower() == winning_outcome.lower() else 0.0
Actual(outcome, w) == IF Lower(outcome) = Lower(w) THEN 1 ELSE 0

\* brier = (row["bot_probability"] - actual) ** 2, in 1 / ProbScale^2
Brier(p, actual) == (p - actual * ProbScale) * (p - actual * ProbScale)

\* UPDATE predictions SET resolved = 1, actual_outcome = ?,
\* resolution_date = ?, brier_component = ? WHERE id = ?
Updated(row, w, t) ==
    [row EXCEPT !.resolved = 1,
                !.actual_outcome = <<w>>,
                !.resolution_date = <<t>>,
                !.brier_component = <<Brier(row.bot_probability, Actual(row.outcome, w))>>]

\* resolve_prediction(condition_id, winning_outcome), run to its commit.
ResolvePrediction(c, w) ==
    /\ rows' = [k \in 1..Len(rows) |->
                  IF k \in Selected(c) THEN Updated(rows[k], w, now) ELSE rows[k]]
    /\ lastCall' = [op |-> "resolve", condition_id |-> c, winning_outcome |-> w,
                    ret |-> Cardinality(Selected(c))]
    /\ resolvedSince' = resolvedSince \cup {c}
    /\ UNCHANGED <<now, notRepo>>

\* Time passes between two calls.
ClockTick ==
    /\ now < MaxClock
    /\ now' = now + 1
    /\ UNCHANGED <<rows, lastCall, resolvedSince, notRepo>>

NextRepo ==
    \/ \E c \in Conditions, f \in Forecasts : SavePrediction(c, f, None)
    \/ \E c \in Conditions, w \in WinningLabels : ResolvePrediction(c, w)
    \/ ClockTick

(***************************************************************************)
(* compute_kelly (src/forecasting/ev_calculator.py). The arguments are     *)
(* fractions <<n, d>> with d > 0 and the arithmetic is exact.              *)
(***************************************************************************)

\* The arguments are multiples of 1/KellyGrid.
KellyGrid == 10

RECURSIVE GCD(_, _)
GCD(a, b) == IF b = 0 THEN a ELSE GCD(b, a % b)

Abs(a) == IF a < 0 THEN 0 - a ELSE a

\* A fraction with a positive denominator, in lowest terms.
Frac(n, d) ==
    LET s == IF d < 0 THEN 0 - 1 ELSE 1
        g == GCD(Abs(n), Abs(d))
    IN  <<(s * n) \div g, (s * d) \div g>>

Zero == <<0, 1>>
One == <<1, 1>>
\* The stake without the halving.
FullKelly == <<1, 1>>
Half == <<1, 2>>

RSub(x, y) == Frac(x[1] * y[2] - y[1] * x[2], x[2] * y[2])
RMul(x, y) == Frac(x[1] * y[1], x[2] * y[2])
RDiv(x, y) == Frac(x[1] * y[2], x[2] * y[1])
RLeq(x, y) == x[1] * y[2] <= y[1] * x[2]
RLess(x, y) == x[1] * y[2] < y[1] * x[2]
RMax(x, y) == IF RLess(x, y) THEN y ELSE x
RAdd(x, y) == Frac(x[1] * y[2] + y[1] * x[2], x[2] * y[2])

\* bot_prob in [0, 1]; market_prob also at and beyond both ends of (0, 1).
BotProbs == { Frac(i, KellyGrid) : i \in 0..KellyGrid }
MarketProbs == { Frac(j, KellyGrid) : j \in (0 - 1)..(KellyGrid + 1) }

\* return kelly * 0.5, without the max(0.0, ...)
HalfKellyUnclamped(kelly) == RMul(kelly, Half)

\* return max(0.0, kelly * 0.5)
HalfKellyClamped(kelly) == RMax(Zero, RMul(kelly, Half))

compute_kelly(bp, mp) ==
    IF RLeq(mp, Zero) \/ RLeq(One, mp) THEN Zero
    ELSE LET b == RDiv(RSub(One, mp), mp)
         IN  IF RLeq(b, Zero) THEN Zero
             ELSE LET p == bp
                      q == RSub(One, p)
                      kelly == RDiv(RSub(RMul(b, p), q), b)
                  IN  HalfKellyClamped(kelly)

InitKelly ==
    /\ bot_prob \in BotProbs
    /\ market_prob \in MarketProbs
    /\ kelly_fraction = Zero
    /\ kellyPc = "called"

\* The call returns.
ComputeKelly ==
    /\ kellyPc = "called"
    /\ kelly_fraction' = compute_kelly(bot_prob, market_prob)
    /\ kellyPc' = "returned"
    /\ UNCHANGED <<bot_prob, market_prob, notKelly>>

\* The next call, with other arguments.
CallKelly(bp, mp) ==
    /\ kellyPc = "returned"
    /\ bot_prob' = bp
    /\ market_prob' = mp
    /\ kelly_fraction' = Zero
    /\ kellyPc' = "called"
    /\ UNCHANGED notKelly

NextKelly ==
    \/ ComputeKelly
    \/ \E bp \in BotProbs, mp \in MarketProbs : CallKelly(bp, mp)

IdleKelly ==
    /\ bot_prob = Zero
    /\ market_prob = Zero
    /\ kelly_fraction = Zero
    /\ kellyPc = "returned"

(***************************************************************************)
(* _parse_probabilities (src/forecasting/engine.py). A text is the         *)
(* sequence of its lines; a line is the PROBABILITIES: marker or           *)
(* "label: number", kept as the text before the colon and the text after.  *)
(***************************************************************************)

Marker == [label |-> "PROBABILITIES:", number |-> ""]
Line(l, n) == [label |-> l, number |-> n]

\* text.split("PROBABILITIES:")[-1] if "PROBABILITIES:" in text else text
ProbSection(text) ==
    IF \E i \in 1..Len(text) : text[i] = Marker
    THEN LET last == CHOOSE i \in 1..Len(text) :
                        /\ text[i] = Marker
                        /\ \A j \in (i + 1)..Len(text) : text[j] # Marker
         IN  SubSeq(text, last + 1, Len(text))
    ELSE text

\* The group (0?\.\d+|1\.0+|0+\.0+|1) matched at the start of the text after
\* the colon, and float() of it: <<>> when the group does not match there.
NumberGroup(number) ==
    CASE number = "0.6"  -> << Frac(6, 10) >>
      [] number = "0.45" -> << Frac(45, 100) >>
      [] number = "0.4"  -> << Frac(4, 10) >>
      [] number = "0.25" -> << Frac(25, 100) >>
      [] number = "0.95" -> << Frac(95, 100) >>
      [] number = "1.5"  -> << Frac(1, 1) >>
      [] number = "0"    -> << >>
      [] number = "75%"  -> << >>
      [] OTHER -> << >>

\* The pairs (suffix, string) of the lower-case labels in which the first is
\* a proper suffix of the second.
ProperSuffixes == { <<"trump", "donald trump">> }

\* The string ends with the suffix.
EndsWith(str, suffix) == str = suffix \/ <<suffix, str>> \in ProperSuffixes

\* re.escape(outcome) followed by \s*: with re.IGNORECASE: the text before
\* the colon ends with the outcome, whatever the case of the letters.
LabelMatches(label, outcome) == EndsWith(Lower(label), Lower(outcome))

LineMatches(line, outcome) ==
    /\ line # Marker
    /\ LabelMatches(line.label, outcome)
    /\ NumberGroup(line.number) # << >>

\* pattern.search(prob_section): the first match in the section.
Search(section, outcome) ==
    IF \E i \in 1..Len(section) : LineMatches(section[i], outcome)
    THEN LET first == CHOOSE i \in 1..Len(section) :
                         /\ LineMatches(section[i], outcome)
                         /\ \A j \in 1..(i - 1) : ~LineMatches(section[j], outcome)
         IN  NumberGroup(section[first].number)
    ELSE << >>

\* probs after the loop over the outcomes: a dict keyed by outcome.
Extracted(text, outcomes) ==
    LET section == ProbSection(text)
    IN  [o \in { x \in Range(outcomes) : Search(section, x) # << >> } |->
            Search(section, o)[1]]

RECURSIVE SumValues(_, _)
SumValues(d, keys) ==
    IF keys = {} THEN Zero
    ELSE LET k == CHOOSE x \in keys : TRUE
         IN  RAdd(d[k], SumValues(d, keys \ {k}))

\* total = sum(probs.values())
Total(d) == SumValues(d, DOMAIN d)

\* The division applied whatever the total is, when it is not 0.
NormalisedAlways(d) ==
    IF DOMAIN d # {} /\ Total(d) # Zero
    THEN [k \in DOMAIN d |-> RDiv(d[k], Total(d))]
    ELSE d

\* if probs and 0.9 < total < 1.1 and total != 1.0: probs = {k: v / total ...}
Normalised(d) ==
    IF /\ DOMAIN d # {}
       /\ RLess(<<9, 10>>, Total(d))
       /\ RLess(Total(d), <<11, 10>>)
       /\ Total(d) # One
    THEN [k \in DOMAIN d |-> RDiv(d[k], Total(d))]
    ELSE d

parse_probabilities(text, outcomes) == Normalised(Extracted(text, outcomes))

(***************************************************************************)
(* classify_recommendation (src/forecasting/ev_calculator.py)              *)
(***************************************************************************)

\* Bound: ev ranges over the hundredths from -EvHundredths to EvHundredths
\* and over the values 0.00001 below and above each of them.
EvHundredths == 20

EvValues ==
    { Frac(1000 * n + d, 100000) :
        n \in (0 - EvHundredths)..EvHundredths, d \in {0 - 1, 0, 1} }

\* The thresholds 0.10 and 0.05.
StrongBuyAbove == <<1, 10>>
BuyAbove == <<1, 20>>

\* ev >= 0.10 in place of ev > 0.10
AboveOrAt(x, threshold) == RLeq(threshold, x)

\* ev > threshold
Above(x, threshold) == RLess(threshold, x)

classify_recommendation(x) ==
    IF Above(x, StrongBuyAbove) THEN "STRONG_BUY"
    ELSE IF Above(x, BuyAbove) THEN "BUY"
    ELSE IF Above(x, Zero) THEN "HOLD"
    ELSE "AVOID"

InitClassify ==
    /\ ev \in EvValues
    /\ recommendation = "AVOID"
    /\ classifyPc = "called"

\* The call returns.
Classify ==
    /\ classifyPc = "called"
    /\ recommendation' = classify_recommendation(ev)
    /\ classifyPc' = "returned"
    /\ UNCHANGED <<ev, notClassify>>

\* The next call, with another argument.
CallClassify(x) ==
    /\ classifyPc = "returned"
    /\ ev' = x
    /\ recommendation' = "AVOID"
    /\ classifyPc' = "called"
    /\ UNCHANGED notClassify

NextClassify ==
    \/ Classify
    \/ \E x \in EvValues : CallClassify(x)

IdleClassify ==
    /\ ev = Zero
    /\ recommendation = "AVOID"
    /\ classifyPc = "returned"

(***************************************************************************)
(* evaluate_outcome and ForecastingEngine.analyze_market, the data: two    *)
(* runs, each with its market, its articles and its LLM response.          *)
(***************************************************************************)

\* Bound: the outcome tokens of a market.
MaxTokens == 2

Runs == {1, 2}

\* round(x, 4): the nearest multiple of 0.0001, a tie going to the even one.
Round4(x) ==
    LET n == x[1] * 10000
        d == x[2]
        q == n \div d
        r == n - q * d
        up == 2 * r > d \/ (2 * r = d /\ q % 2 = 1)
    IN  Frac(IF up THEN q + 1 ELSE q, 10000)

compute_ev(bp, mp) == RSub(bp, mp)

evaluate_outcome(outcome, bp, mp) ==
    [outcome |-> outcome,
     bot_probability |-> bp,
     market_probability |-> mp,
     ev_per_dollar |-> Round4(compute_ev(bp, mp)),
     kelly_fraction |-> Round4(compute_kelly(bp, mp)),
     recommendation |-> classify_recommendation(compute_ev(bp, mp))]

Token(o, p) == [outcome |-> o, price |-> p]
TokenPrices == { Zero, Frac(2, 5) }
TokenSet == { Token(o, p) : o \in {"Yes", "No"}, p \in TokenPrices }
TokenLists == { t \in SeqsUpTo(TokenSet, MaxTokens) : Len(t) >= 1 }

\* description[:2000] keeps the head of a description and drops the rest.
Description == [head |-> "first 2000 characters", rest |-> "what follows them"]

MarketOf(tokenList) ==
    [condition_id |-> "m1", question |-> "Will it happen?", slug |-> "will-it-happen",
     description |-> Description, end_date |-> "2026-12-31", tokens |-> tokenList]
Markets == { MarketOf(t) : t \in TokenLists }

\* What fetch_articles_for_market may have returned to analyze_market.
ArticleLists == { <<>>, << Article("u1", <<2>>, "t1") >> }

\* The responses: the lines "label: number" and the marker.
Replies ==
    { << >>,
      << Marker, Line("Yes", "0.6"), Line("No", "0.4") >>,
      << Marker, Line("Yes", "0.6"), Line("No", "0.45") >>,
      << Marker, Line("Yes", "0.6") >>,
      << Marker, Line("Yes", "0.6"), Line("No", "0.25") >>,
      << Line("No", "0.4"), Marker, Line("Yes", "0.6") >>,
      << Marker, Line("yes", "0.95") >>,
      << Marker, Line("Yes", "0.6"), Line("no", "0") >>,
      << Line("Yes", "0.6"), Line("No", "0.45") >>,
      << Marker, Line("no", "75%"), Line("No", "0.4") >> }

\* outcomes = [t.outcome for t in market.tokens]
Outcomes(m) == [i \in 1..Len(m.tokens) |-> m.tokens[i].outcome]

\* _format_articles, and build_user_prompt's text for no articles.
ArticlesText(arts) ==
    IF arts = <<>> THEN << "(No recent news found.)" >>
    ELSE [i \in 1..Len(arts) |->
            [n |-> i, title |-> arts[i].title,
             date |-> IF arts[i].published_at = <<>> THEN "unknown"
                      ELSE "%Y-%m-%d"]]

build_user_prompt(question, description, outcomes, end_date, today, articles_text) ==
    [question |-> question, description |-> description, outcomes |-> outcomes,
     end_date |-> end_date, today |-> today, articles_text |-> articles_text,
     outcome_lines |-> [i \in 1..Len(outcomes) |-> Line(outcomes[i], "<decimal>")]]

\* A prompt that lists each outcome with its market price.
SentPromptWithPrices(m, arts) ==
    [system |-> "SYSTEM_PROMPT",
     user |-> build_user_prompt(m.question, m.description.head, m.tokens,
                                m.end_date, "today", ArticlesText(arts))]

\* system=SYSTEM_PROMPT, messages=[{"role": "user", "content": user_prompt}]
SentPrompt(m, arts) ==
    [system |-> "SYSTEM_PROMPT",
     user |-> build_user_prompt(m.question, m.description.head, Outcomes(m),
                                m.end_date, "today", ArticlesText(arts))]

\* probs.get(token.outcome, 0.5 / len(market.tokens))
BotProbDefault(d, token, n) == Frac(1, 2 * n)

\* bot_prob = probs.get(token.outcome, 0.5 / len(market.tokens))
BotProb(d, token, n) ==
    IF token.outcome \in DOMAIN d THEN d[token.outcome] ELSE Frac(1, 2 * n)

\* market_prob = token.price if token.price > 0 else 0.5
MarketProb(token) == IF RLess(Zero, token.price) THEN token.price ELSE Half

\* One OutcomeForecast per entry of the extracted mapping, in token order.
EvaluateExtracted(tokenList, d) ==
    LET kept == SelectSeq(tokenList, LAMBDA t : t.outcome \in DOMAIN d)
    IN  [i \in 1..Len(kept) |->
            evaluate_outcome(kept[i].outcome, d[kept[i].outcome], MarketProb(kept[i]))]

\* for token in market.tokens: ... outcome_forecasts.append(of)
EvaluateTokens(tokenList, d) ==
    [i \in 1..Len(tokenList) |->
        evaluate_outcome(tokenList[i].outcome,
                         BotProb(d, tokenList[i], Len(tokenList)),
                         MarketProb(tokenList[i]))]

ForecastResult(m, text, d, arts) ==
    [condition_id |-> m.condition_id, question |-> m.question, slug |-> m.slug,
     reasoning |-> text, outcomes |-> EvaluateTokens(m.tokens, d),
     confidence |-> Zero, prompt_version |-> "PROMPT_VERSION",
     news_article_count |-> Len(arts)]

\* The two runs are given markets with the same outcome labels and the same
\* articles; they differ in the prices or in the response, not in both.
InitAnalysis ==
    /\ market \in [Runs -> Markets]
    /\ Outcomes(market[1]) = Outcomes(market[2])
    /\ \E arts \in ArticleLists : articles = [r \in Runs |-> arts]
    /\ response \in [Runs -> Replies]
    /\ market[1] = market[2] \/ response[1] = response[2]
    /\ user_prompt = [r \in Runs |-> <<>>]
    /\ probs = [r \in Runs |-> <<>>]
    /\ forecast = [r \in Runs |-> <<>>]
    /\ anPc = [r \in Runs |-> "called"]

\* analyze_market(market) from the call to the return of the ForecastResult.
Analyze(r) ==
    /\ anPc[r] = "called"
    /\ user_prompt' = [user_prompt EXCEPT ![r] = SentPrompt(market[r], articles[r])]
    /\ probs' = [probs EXCEPT ![r] =
                    parse_probabilities(response[r], Outcomes(market[r]))]
    /\ forecast' = [forecast EXCEPT ![r] =
                       ForecastResult(market[r], response[r], probs'[r], articles[r])]
    /\ anPc' = [anPc EXCEPT ![r] = "returned"]
    /\ UNCHANGED <<market, articles, response, notAnalysis>>

NextAnalysis == \E r \in Runs : Analyze(r)

IdleAnalysis ==
    /\ market = [r \in Runs |-> MarketOf(<< Token("Yes", Zero) >>)]
    /\ articles = [r \in Runs |-> <<>>]
    /\ response = [r \in Runs |-> <<>>]
    /\ user_prompt = [r \in Runs |-> <<>>]
    /\ probs = [r \in Runs |-> <<>>]
    /\ forecast = [r \in Runs |-> <<>>]
    /\ anPc = [r \in Runs |-> "returned"]

(***************************************************************************)
(* Repository statistics: get_brier_score and get_calibration_data         *)
(* (src/database/repository.py). A probability p of a row is the fraction  *)
(* p / ProbScale; SQL's AVG and the float sums are taken exactly, except   *)
(* for the bucket bound low + 0.1, whose rounding is kept.                 *)
(***************************************************************************)

\* Requesters: the id stored with a row, and the id a query is made with.
Users == { <<1>>, <<2>> }
UserArgs == { None } \cup Users

\* `if telegram_user_id:` is false for None and for 0.
Truthy(u) == u # None /\ u # <<0>>

\* The WHERE clause without "AND telegram_user_id = ?".
ScopedAnyUser(u) ==
    { k \in 1..Len(rows) :
        rows[k].resolved = 1 /\ rows[k].brier_component # None }

\* WHERE resolved = 1 AND brier_component IS NOT NULL
\* [AND telegram_user_id = ?]
Scoped(u) ==
    { k \in 1..Len(rows) :
        /\ rows[k].resolved = 1
        /\ rows[k].brier_component # None
        /\ Truthy(u) => rows[k].telegram_user_id = u }

RECURSIVE SumBrier(_)
SumBrier(S) ==
    IF S = {} THEN 0
    ELSE LET k == CHOOSE x \in S : TRUE
         IN rows[k].brier_component[1] + SumBrier(S \ {k})

RECURSIVE SumProb(_)
SumProb(S) ==
    IF S = {} THEN 0
    ELSE LET k == CHOOSE x \in S : TRUE
         IN rows[k].bot_probability + SumProb(S \ {k})

\* get_brier_score(telegram_user_id): AVG(brier_component), None when the
\* count is 0.
get_brier_score(u) ==
    LET S == Scoped(u)
    IN IF Cardinality(S) = 0 THEN None
       ELSE Frac(SumBrier(S), Cardinality(S) * ProbScale * ProbScale)

\* range(10)
NumBuckets == 10

\* low = i / 10, the float nearest to the tenth.
Low(i) == Frac(i, NumBuckets)

\* The sign of the rounding error of the float sum low + 0.1 against the
\* float nearest to (i + 1) / 10: 0.2 + 0.1 is 0.30000000000000004,
\* 0.7 + 0.1 is 0.7999999999999999, the other eight sums are exact.
HighError(i) ==
    CASE i = 2 -> 1
      [] i = 7 -> -1
      [] OTHER -> 0

\* high = low + 0.1
High(i) == [nearest |-> Frac(i + 1, NumBuckets), error |-> HighError(i)]

\* bot_probability >= low
AtLeastLow(p, i) == RLeq(Low(i), Frac(p, ProbScale))

\* bot_probability < high
BelowHigh(p, i) ==
    \/ RLess(Frac(p, ProbScale), High(i).nearest)
    \/ Frac(p, ProbScale) = High(i).nearest /\ High(i).error > 0

\* The rows one bucket's SELECT aggregates.
InBucket(i, u) ==
    { k \in Scoped(u) :
        /\ AtLeastLow(rows[k].bot_probability, i)
        /\ BelowHigh(rows[k].bot_probability, i) }

\* CASE WHEN outcome = actual_outcome THEN 1.0 ELSE 0.0 END
Hit(row) == IF row.actual_outcome = <<row.outcome>> THEN 1 ELSE 0

Hits(S) == Cardinality({ k \in S : Hit(rows[k]) = 1 })

\* The dict appended for a bucket with cnt > 0.
BucketDict(i, S) ==
    [bucket_lower |-> Low(i),
     bucket_upper |-> High(i),
     predicted_avg |-> Frac(SumProb(S), Cardinality(S) * ProbScale),
     actual_frequency |-> Frac(Hits(S), Cardinality(S)),
     count |-> Cardinality(S)]

\* The loop over the buckets from i on.
RECURSIVE BucketsFrom(_, _)
BucketsFrom(i, u) ==
    IF i >= NumBuckets THEN <<>>
    ELSE (IF Cardinality(InBucket(i, u)) > 0
          THEN << BucketDict(i, InBucket(i, u)) >>
          ELSE <<>>) \o BucketsFrom(i + 1, u)

get_calibration_data(u) == BucketsFrom(0, u)

GetBrierScore(u) ==
    /\ lastCall' = [op |-> "get_brier_score", telegram_user_id |-> u,
                    ret |-> get_brier_score(u)]
    /\ UNCHANGED <<rows, now, resolvedSince, notRepo>>

GetCalibrationData(u) ==
    /\ lastCall' = [op |-> "get_calibration_data", telegram_user_id |-> u,
                    ret |-> get_calibration_data(u)]
    /\ UNCHANGED <<rows, now, resolvedSince, notRepo>>

\* Forecasts of one outcome, saved for a requester, on one market.
NextStats ==
    \/ \E o \in OutcomeForecasts, u \in Users : SavePrediction("m1", <<o>>, u)
    \/ \E w \in WinningLabels : ResolvePrediction("m1", w)
    \/ \E u \in UserArgs : GetBrierScore(u)
    \/ \E u \in UserArgs : GetCalibrationData(u)

\* WHERE resolved = 1 AND recommendation IN ('BUY', 'STRONG_BUY')
\* [AND telegram_user_id = ?]
Recommended(u) ==
    { k \in 1..Len(rows) :
        /\ rows[k].resolved = 1
        /\ rows[k].recommendation \in {"BUY", "STRONG_BUY"}
        /\ Truthy(u) => rows[k].telegram_user_id = u }

\* get_win_rate(telegram_user_id): COUNT(*) and SUM(CASE ...), the SUM over
\* no row being NULL.
get_win_rate(u) ==
    LET S == Recommended(u)
        total == Cardinality(S)
    IN [total |-> total,
        wins |-> IF total = 0 THEN None ELSE <<Hits(S)>>,
        win_rate |-> IF total > 0 THEN <<Frac(Hits(S), total)>> ELSE None]

GetWinRate(u) ==
    /\ lastCall' = [op |-> "get_win_rate", telegram_user_id |-> u,
                    ret |-> get_win_rate(u)]
    /\ UNCHANGED <<rows, now, resolvedSince, notRepo>>

\* The forecasts saved before the statistics are read: for requester 1 those
\* above and a certain one, bot_probability 1.0; for requester 2 the first.
ScoredForecasts(u) ==
    IF u = <<1>> THEN OutcomeForecasts \cup { <<"Yes", ProbScale, "BUY">> }
    ELSE { <<"Yes", 8, "BUY">> }

NextScoring ==
    \/ \E u \in Users : \E o \in ScoredForecasts(u) :
           SavePrediction("m1", <<o>>, u)
    \/ \E w \in WinningLabels : ResolvePrediction("m1", w)
    \/ \E u \in UserArgs : GetWinRate(u)
    \/ \E u \in UserArgs : GetCalibrationData(u)

(***************************************************************************)
(* extract_search_queries (src/news/relevance.py). A string is the         *)
(* sequence of its characters.                                             *)
(***************************************************************************)

\* Pieces a question is put together from, and the number of them.
MaxPieces == 3

\* _STOPWORDS
STOPWORDS == {
    <<"w", "i", "l", "l">>, <<"t", "h", "e">>, <<"a">>, <<"a", "n">>,
    <<"b", "e">>, <<"i", "s">>, <<"a", "r", "e">>, <<"w", "a", "s">>,
    <<"w", "e", "r", "e">>, <<"b", "e", "e", "n">>, <<"b", "y">>,
    <<"i", "n">>, <<"o", "n">>, <<"a", "t">>, <<"t", "o">>,
    <<"f", "o", "r">>, <<"o", "f">>, <<"w", "i", "t", "h">>,
    <<"f", "r", "o", "m">>, <<"a", "s">>, <<"t", "h", "i", "s">>,
    <<"t", "h", "a", "t">>, <<"i", "t">>, <<"i", "t", "s">>, <<"o", "r">>,
    <<"a", "n", "d">>, <<"n", "o", "t">>, <<"n", "o">>, <<"y", "e", "s">>,
    <<"d", "o">>, <<"d", "o", "e", "s">>, <<"d", "i", "d">>,
    <<"h", "a", "s">>, <<"h", "a", "v", "e">>, <<"h", "a", "d">>,
    <<"c", "a", "n">>, <<"c", "o", "u", "l", "d">>,
    <<"w", "o", "u", "l", "d">>, <<"s", "h", "o", "u", "l", "d">>,
    <<"m", "a", "y">>, <<"m", "i", "g", "h", "t">>,
    <<"s", "h", "a", "l", "l">>, <<"b", "e", "f", "o", "r", "e">>,
    <<"a", "f", "t", "e", "r">>, <<"d", "u", "r", "i", "n", "g">>,
    <<"w", "h", "a", "t">>, <<"w", "h", "i", "c", "h">>, <<"w", "h", "o">>,
    <<"w", "h", "o", "m">>, <<"h", "o", "w">>, <<"w", "h", "e", "n">>,
    <<"w", "h", "e", "r", "e">>, <<"w", "h", "y">>, <<"i", "f">>,
    <<"t", "h", "a", "n">>, <<"t", "h", "e", "n">>,
    <<"a", "b", "o", "u", "t">>, <<"i", "n", "t", "o">>,
    <<"t", "h", "r", "o", "u", "g", "h">>, <<"a", "b", "o", "v", "e">>,
    <<"b", "e", "l", "o", "w">>, <<"b", "e", "t", "w", "e", "e", "n">>,
    <<"u", "p">>, <<"d", "o", "w", "n">>, <<"o", "u", "t">>,
    <<"o", "f", "f">>, <<"o", "v", "e", "r">>, <<"u", "n", "d", "e", "r">>,
    <<"a", "g", "a", "i", "n">>, <<"f", "u", "r", "t", "h", "e", "r">>,
    <<"o", "n", "c", "e">>, <<"h", "e", "r", "e">>,
    <<"t", "h", "e", "r", "e">>, <<"a", "l", "l">>, <<"e", "a", "c", "h">>,
    <<"e", "v", "e", "r", "y">>, <<"b", "o", "t", "h">>, <<"f", "e", "w">>,
    <<"m", "o", "r", "e">>, <<"m", "o", "s", "t">>,
    <<"o", "t", "h", "e", "r">>, <<"s", "o", "m", "e">>,
    <<"s", "u", "c", "h">>, <<"a", "n", "y">>, <<"o", "n", "l", "y">> }

UpperCase ==
    <<"A", "B", "C", "D", "E", "F", "G", "H", "I", "J", "K", "L", "M",
      "N", "O", "P", "Q", "R", "S", "T", "U", "V", "W", "X", "Y", "Z">>
LowerCase ==
    <<"a", "b", "c", "d", "e", "f", "g", "h", "i", "j", "k", "l", "m",
      "n", "o", "p", "q", "r", "s", "t", "u", "v", "w", "x", "y", "z">>

\* [A-Z] and [a-z]
IsUpper(c) == \E i \in 1..Len(UpperCase) : UpperCase[i] = c
IsLower(c) == \E i \in 1..Len(LowerCase) : LowerCase[i] = c

\* \s, and what strip() and split() take for white space
IsSpace(c) == c = " "

\* str.lower()
LowerChar(c) ==
    IF IsUpper(c)
    THEN LowerCase[CHOOSE i \in 1..Len(UpperCase) : UpperCase[i] = c]
    ELSE c
LowerStr(s) == [i \in 1..Len(s) |-> LowerChar(s[i])]

\* The character class [?!.,;:"'] of the re.sub.
Stripped == { "?", "!", ".", ",", ";", ":", "\"", "'" }

\* str.strip()
RECURSIVE StripLeft(_)
StripLeft(s) ==
    IF s # <<>> /\ IsSpace(Head(s)) THEN StripLeft(Tail(s)) ELSE s
RECURSIVE StripRight(_)
StripRight(s) ==
    IF s # <<>> /\ IsSpace(s[Len(s)])
    THEN StripRight(SubSeq(s, 1, Len(s) - 1))
    ELSE s
Strip(s) == StripRight(StripLeft(s))

\* cleaned = re.sub(r"[?!.,;:\"']", "", question).strip()
IsKept(c) == c \notin Stripped
Cleaned(q) == Strip(SelectSeq(q, IsKept))

\* The end of the run of [a-z] that starts at i (i - 1 when there is none).
RECURSIVE LowerRunEnd(_, _)
LowerRunEnd(s, i) ==
    IF i <= Len(s) /\ IsLower(s[i]) THEN LowerRunEnd(s, i + 1) ELSE i - 1

\* The end of the run of \s that starts at i (i - 1 when there is none).
RECURSIVE SpaceRunEnd(_, _)
SpaceRunEnd(s, i) ==
    IF i <= Len(s) /\ IsSpace(s[i]) THEN SpaceRunEnd(s, i + 1) ELSE i - 1

\* Where [A-Z][a-z]+ matched at i ends, 0 when it does not match there.
WordEnd(s, i) ==
    IF i <= Len(s) /\ IsUpper(s[i]) /\ LowerRunEnd(s, i + 1) > i
    THEN LowerRunEnd(s, i + 1)
    ELSE 0

\* (?:\s+[A-Z][a-z]+)* after a match that ends at e: the end of the whole.
RECURSIVE RunEnd(_, _)
RunEnd(s, e) ==
    LET sp == SpaceRunEnd(s, e + 1)
    IN IF sp > e /\ WordEnd(s, sp + 1) > 0
       THEN RunEnd(s, WordEnd(s, sp + 1))
       ELSE e

\* re.findall(r"(?:[A-Z][a-z]+(?:\s+[A-Z][a-z]+)*)", question) from i on:
\* the leftmost match, then the matches after its end.
RECURSIVE FindAll(_, _)
FindAll(s, i) ==
    IF i > Len(s) THEN <<>>
    ELSE IF WordEnd(s, i) > 0
         THEN LET e == RunEnd(s, WordEnd(s, i))
              IN << SubSeq(s, i, e) >> \o FindAll(s, e + 1)
         ELSE FindAll(s, i + 1)

\* if entity.lower() not in _STOPWORDS and len(entity) > 2
IsQueryWord(w) == LowerStr(w) \notin STOPWORDS /\ Len(w) > 2
Entities(q) == SelectSeq(FindAll(q, 1), IsQueryWord)

\* str.split(): the words between runs of white space.
RECURSIVE Split(_, _)
Split(s, word) ==
    IF s = <<>> THEN (IF word = <<>> THEN <<>> ELSE << word >>)
    ELSE IF IsSpace(Head(s))
         THEN (IF word = <<>> THEN <<>> ELSE << word >>) \o Split(Tail(s), <<>>)
         ELSE Split(Tail(s), Append(word, Head(s)))

\* " ".join(words)
RECURSIVE Join(_)
Join(words) ==
    IF words = <<>> THEN <<>>
    ELSE IF Len(words) = 1 THEN words[1]
    ELSE words[1] \o << " " >> \o Join(Tail(words))

\* keywords[:6]
MaxKeywords == 6
\* max_queries: int = 3
MaxQueries == 3

\* keywords = [w for w in words if w.lower() not in _STOPWORDS and len(w) > 2]
Keywords(cleaned) == SelectSeq(Split(cleaned, <<>>), IsQueryWord)

\* queries before the deduplication
Candidates(q) ==
    << Cleaned(q) >> \o Entities(q)
        \o (IF Keywords(Cleaned(q)) # <<>>
            THEN << Join(SubSeq(Keywords(Cleaned(q)), 1,
                                Min(MaxKeywords, Len(Keywords(Cleaned(q)))))) >>
            ELSE <<>>)

\* The loop without the test "key not in seen".
RECURSIVE UniqueKeepAll(_, _)
UniqueKeepAll(list, seen) ==
    IF list = <<>> THEN <<>>
    ELSE << Head(list) >> \o UniqueKeepAll(Tail(list), seen)

\* for q in queries: key = q.lower(); if key not in seen: ...
RECURSIVE Unique(_, _)
Unique(list, seen) ==
    IF list = <<>> THEN <<>>
    ELSE IF LowerStr(Head(list)) \in seen
         THEN Unique(Tail(list), seen)
         ELSE << Head(list) >>
                  \o Unique(Tail(list), seen \cup { LowerStr(Head(list)) })

extract_search_queries(q, max_queries) ==
    LET unique == Unique(Candidates(q), {})
    IN SubSeq(unique, 1, Min(max_queries, Len(unique)))

\* The pieces: capitalised and lower-case words, a stop-word in both cases,
\* a short word, separators and punctuation the re.sub removes or keeps.
Pieces ==
    { <<"A", "b", "b">>,
      <<"B", "a", "b">>,
      <<"a", "b", "b">>,
      <<" ", "a", " ">>,
      <<"W", "i", "l", "l", " ">>,
      <<" ", "w", "i", "l", "l">>,
      <<" ">>,
      <<"?">>,
      <<"-">>,
      <<",", " ">> }

\* The question of the documented example.
PowellQuestion ==
    <<"W", "i", "l", "l", " ", "J", "e", "r", "o", "m", "e", " ", "P",
      "o", "w", "e", "l", "l", " ", "r", "e", "s", "i", "g", "n", " ",
      "b", "e", "f", "o", "r", "e", " ", "2", "0", "2", "6", "?">>

RECURSIVE Concat(_)
Concat(list) == IF list = <<>> THEN <<>> ELSE Head(list) \o Concat(Tail(list))

Questions ==
    { Concat(l) : l \in SeqsUpTo(Pieces, MaxPieces) } \cup { PowellQuestion }

InitQuery ==
    /\ questionText \in Questions
    /\ queries = <<>>
    /\ queryPc = "called"

\* The call returns.
ExtractSearchQueries ==
    /\ queryPc = "called"
    /\ queries' = extract_search_queries(questionText, MaxQueries)
    /\ queryPc' = "returned"
    /\ UNCHANGED <<questionText, notQuery>>

NextQuery == ExtractSearchQueries

IdleQuery ==
    /\ questionText = <<>>
    /\ queries = <<>>
    /\ queryPc = "returned"

(***************************************************************************)
(* Two resolve_prediction calls that run concurrently on one Repository    *)
(* and its one connection: a call may be overtaken at each await.          *)
(***************************************************************************)

Callers == {1, 2}

\* What a step of a resolve_prediction call leaves alone.
notRepoNorResolve ==
    <<newsVars, bucketVars, kellyVars, classifyVars, analysisVars, queryVars,
      rateVars, orderVars, evalVars,
      parseVars>>

\* The tables that save_prediction calls for one market leave.
UnresolvedTables ==
    { [k \in 1..Len(f) |-> NewRow("m1", f[k][1], f[k][2], f[k][3], None)] :
        f \in { g \in SeqsUpTo(OutcomeForecasts, MaxRows) : Len(g) >= 1 } }

\* rows = await cursor.fetchall(): the ids, in id order.
RECURSIVE InIdOrder(_)
InIdOrder(S) ==
    IF S = {} THEN <<>>
    ELSE LET k == CHOOSE x \in S : \A y \in S : x <= y
         IN << k >> \o InIdOrder(S \ {k})

IdleResolve ==
    /\ resolvePc = [c \in Callers |-> "idle"]
    /\ selected = [c \in Callers |-> <<>>]
    /\ winner = [c \in Callers |-> ""]
    /\ count = [c \in Callers |-> 0]
    /\ writers = [k \in 1..MaxRows |-> {}]

InitResolve ==
    /\ rows \in UnresolvedTables
    /\ now = 0
    /\ lastCall = [op |-> "none", condition_id |-> "", winning_outcome |-> "",
                   ret |-> 0]
    /\ resolvedSince = {}
    /\ IdleResolve

\* resolve_prediction(condition_id, w) is called: the SELECT of the rows with
\* resolved = 0 and its fetchall; count = 0.
SelectUnresolved(c, m, w) ==
    /\ resolvePc[c] = "idle"
    /\ selected' = [selected EXCEPT ![c] = InIdOrder(Selected(m))]
    /\ winner' = [winner EXCEPT ![c] = w]
    /\ count' = [count EXCEPT ![c] = 0]
    /\ resolvePc' = [resolvePc EXCEPT ![c] = "updating"]
    /\ UNCHANGED <<writers, repoVars, notRepoNorResolve>>

\* One turn of the loop: actual, brier, the UPDATE ... WHERE id = ? of the
\* next fetched row, count += 1.
UpdateRow(c) ==
    /\ resolvePc[c] = "updating"
    /\ selected[c] # <<>>
    /\ LET k == Head(selected[c])
       IN /\ rows' = [rows EXCEPT ![k] = Updated(rows[k], winner[c], now)]
          /\ writers' = [writers EXCEPT ![k] = @ \cup {c}]
    /\ selected' = [selected EXCEPT ![c] = Tail(selected[c])]
    /\ count' = [count EXCEPT ![c] = @ + 1]
    /\ UNCHANGED <<resolvePc, winner, now, lastCall, resolvedSince,
                   notRepoNorResolve>>

\* await self._conn.commit(); return count
CommitAndReturn(c) ==
    /\ resolvePc[c] = "updating"
    /\ selected[c] = <<>>
    /\ resolvePc' = [resolvePc EXCEPT ![c] = "returned"]
    /\ UNCHANGED <<selected, winner, count, writers, repoVars,
                   notRepoNorResolve>>

NextResolve ==
    \/ \E c \in Callers, w \in WinningLabels : SelectUnresolved(c, "m1", w)
    \/ \E c \in Callers : UpdateRow(c)
    \/ \E c \in Callers : CommitAndReturn(c)

(***************************************************************************)
(* fetch_articles_for_market called twice, one call after the other, the   *)
(* provider coroutines ending with the same results in both calls and      *)
(* completing in any order.                                                *)
(***************************************************************************)

Calls == {1, 2}

\* What a provider coroutine ends with: a list, or an exception.
Ok(list) == [exc |-> FALSE, list |-> list]
Raised == [exc |-> TRUE, list |-> <<>>]

\* The provider results of a call: two providers with the same URL under
\* different titles; equal timestamps; missing timestamps; lists of two.
ProviderOutcomes ==
    LET a == Article("u1", <<1>>, "t1")
        b == Article("u1", <<1>>, "t2")
        c == Article("u2", <<1>>, "t3")
        d == Article("u3", <<>>, "t4")
        e == Article("u4", <<>>, "t5")
    IN { << Ok(<<a>>), Ok(<<>>), Ok(<<>>), Ok(<<b>>), Ok(<<>>) >>,
         << Ok(<<>>), Ok(<<c>>), Ok(<<a>>), Ok(<<>>), Raised >>,
         << Ok(<<d>>), Ok(<<>>), Raised, Ok(<<>>), Ok(<<e>>) >>,
         << Raised, Ok(<<b, d>>), Ok(<<a, e>>), Ok(<<c>>), Ok(<<>>) >> }

\* Results handed over in the order in which the coroutines completed.
AsCompleted(order) == order

\* asyncio.gather: the results are in the order of the awaitables passed,
\* whatever the order in which they completed.
GatherOrder(order) == [i \in Providers |-> i]

\* results = await asyncio.gather(...)
Results(outcomes, order) ==
    [i \in Providers |-> outcomes[GatherOrder(order)[i]]]

InitOrder ==
    /\ outcomeOf \in ProviderOutcomes
    /\ completedIn = [c \in Calls |-> <<>>]
    /\ returnedList = [c \in Calls |-> <<>>]
    /\ gatherPc = [c \in Calls |-> "gathering"]

\* A provider coroutine of a call completes; the second call is made after
\* the first has returned.
Completes(c, p) ==
    /\ gatherPc[c] = "gathering"
    /\ c = 2 => gatherPc[1] = "returned"
    /\ p \notin Range(completedIn[c])
    /\ completedIn' = [completedIn EXCEPT ![c] = Append(@, p)]
    /\ UNCHANGED <<outcomeOf, returnedList, gatherPc, notOrder>>

\* max_articles: int = 25
DefaultMaxArticles == 25

\* Every coroutine is done: the gather returns, then the merge, the sort and
\* the cut at max_articles.
MergeAndReturn(c) ==
    /\ gatherPc[c] = "gathering"
    /\ Len(completedIn[c]) = NumProviders
    /\ returnedList' =
           [returnedList EXCEPT ![c] =
               Truncate(SortByRecency(MergeDedup(
                            Results(outcomeOf, completedIn[c]))),
                        DefaultMaxArticles)]
    /\ gatherPc' = [gatherPc EXCEPT ![c] = "returned"]
    /\ UNCHANGED <<outcomeOf, completedIn, notOrder>>

NextOrder ==
    \/ \E c \in Calls, p \in Providers : Completes(c, p)
    \/ \E c \in Calls : MergeAndReturn(c)

IdleOrder ==
    /\ outcomeOf = [p \in Providers |-> Raised]
    /\ completedIn = [c \in Calls |-> <<>>]
    /\ returnedList = [c \in Calls |-> <<>>]
    /\ gatherPc = [c \in Calls |-> "returned"]

(***************************************************************************)
(* evaluate_outcome called for the outcomes of a ForecastResult, and        *)
(* ForecastResult.best_opportunity read from it.                           *)
(***************************************************************************)

\* bot_prob in [0, 1] and market_prob in (0, 1): tenths, a price with four
\* decimals, and the thirds and thirtieths a normalisation produces.
EvalBotProbs ==
    { Zero, Frac(3, 10), Frac(1, 3), Frac(35, 100), Frac(4, 10), Frac(13, 30),
      Half, One }
EvalMarketProbs == { Frac(3, 10), Frac(3333, 10000), Half, Frac(9, 10) }

\* Outcomes of the ForecastResult.
MaxEvaluated == 2

\* [o for o in self.outcomes if o.ev_per_dollar >= 0]
NonNegative(outcomes) ==
    SelectSeq(outcomes, LAMBDA o : AboveOrAt(o.ev_per_dollar, Zero))

\* positive = [o for o in self.outcomes if o.ev_per_dollar > 0]
Positive(outcomes) ==
    SelectSeq(outcomes, LAMBDA o : Above(o.ev_per_dollar, Zero))

\* max(positive, key=lambda o: o.ev_per_dollar): the first of the greatest.
RECURSIVE MaxByEv(_, _, _)
MaxByEv(list, i, acc) ==
    IF i > Len(list) THEN acc
    ELSE IF RLess(acc.ev_per_dollar, list[i].ev_per_dollar)
         THEN MaxByEv(list, i + 1, list[i])
         ELSE MaxByEv(list, i + 1, acc)

best_opportunity(outcomes) ==
    LET positive == Positive(outcomes)
    IN IF positive = <<>> THEN None
       ELSE MaxByEv(positive, 2, positive[1])

InitEval ==
    /\ outcome_forecasts = <<>>
    /\ best = <<>>

\* of = evaluate_outcome(...); outcome_forecasts.append(of)
EvaluateOutcome(bp, mp) ==
    /\ best = <<>>
    /\ Len(outcome_forecasts) < MaxEvaluated
    /\ outcome_forecasts' =
           Append(outcome_forecasts,
                  evaluate_outcome(IF outcome_forecasts = <<>> THEN "Yes" ELSE "No",
                                   bp, mp))
    /\ UNCHANGED <<best, notEval>>

\* result.best_opportunity
ReadBestOpportunity ==
    /\ best = <<>>
    /\ outcome_forecasts # <<>>
    /\ best' = << best_opportunity(outcome_forecasts) >>
    /\ UNCHANGED <<outcome_forecasts, notEval>>

NextEval ==
    \/ \E bp \in EvalBotProbs, mp \in EvalMarketProbs : EvaluateOutcome(bp, mp)
    \/ ReadBestOpportunity

IdleEval == InitEval

(***************************************************************************)
(* _parse_probabilities called on a response of one line per outcome.      *)
(***************************************************************************)

\* Outcomes of the market.
MaxLabels == 2

OutcomeLabels == { "Donald Trump", "Trump", "Harris" }
LineNumbers == { "0.6", "0.45", "0.25" }

\* outcomes: distinct labels.
LabelLists ==
    { l \in SeqsUpTo(OutcomeLabels, MaxLabels) :
        /\ Len(l) >= 2
        /\ \A i, j \in 1..Len(l) : i # j => l[i] # l[j] }

\* The responses for the outcomes: the marker, then exactly one
\* "label: number" line per outcome, in any order.
OneLinePerOutcome(labels) ==
    { <<Marker>> \o lines :
        lines \in { x \in [1..Len(labels) -> { Line(l, n) : l \in Range(labels),
                                                            n \in LineNumbers }] :
                      \A l \in Range(labels) :
                          Cardinality({ i \in 1..Len(labels) : x[i].label = l }) = 1 } }

InitParse ==
    /\ parseOutcomes \in LabelLists
    /\ parseText \in OneLinePerOutcome(parseOutcomes)
    /\ parsed = <<>>
    /\ parsePc = "called"

\* probs = _parse_probabilities(reasoning, outcomes)
ParseProbabilities ==
    /\ parsePc = "called"
    /\ parsed' = parse_probabilities(parseText, parseOutcomes)
    /\ parsePc' = "returned"
    /\ UNCHANGED <<parseText, parseOutcomes, notParse>>

NextParse == ParseProbabilities

IdleParse ==
    /\ parseOutcomes = <<>>
    /\ parseText = <<>>
    /\ parsed = <<>>
    /\ parsePc = "returned"

IdleNews ==
    /\ provStatus = [p \in Providers |-> "pending"]
    /\ provResult = [p \in Providers |-> <<>>]
    /\ max_articles = 0
    /\ newsPc = "gathering"
    /\ fetched = <<>>

\* The components that a specification of the others leaves idle.
IdleRest ==
    IdleClassify /\ IdleAnalysis /\ IdleQuery /\ IdleRate /\ IdleResolve
        /\ IdleOrder /\ IdleEval /\ IdleParse

InitSpecBucket == InitBucket /\ IdleNews /\ InitRepo /\ IdleKelly /\ IdleRest

InitSpecRepo == InitRepo /\ IdleNews /\ InitBucket /\ IdleKelly /\ IdleRest

InitSpecKelly == InitKelly /\ IdleNews /\ InitBucket /\ InitRepo /\ IdleRest

InitSpecClassify ==
    InitClassify /\ IdleNews /\ InitBucket /\ InitRepo /\ IdleKelly /\ IdleAnalysis
        /\ IdleQuery /\ IdleRate /\ IdleResolve /\ IdleOrder /\ IdleEval /\ IdleParse

InitSpecAnalysis ==
    InitAnalysis /\ IdleNews /\ InitBucket /\ InitRepo /\ IdleKelly /\ IdleClassify
        /\ IdleQuery /\ IdleRate /\ IdleResolve /\ IdleOrder /\ IdleEval /\ IdleParse

SpecAnalysis == InitSpecAnalysis /\ [][NextAnalysis]_vars

SpecClassify == InitSpecClassify /\ [][NextClassify]_vars

SpecKelly == InitSpecKelly /\ [][NextKelly]_vars

SpecRepo == InitSpecRepo /\ [][NextRepo]_vars

SpecStats == InitSpecRepo /\ [][NextStats]_vars

SpecScoring == InitSpecRepo /\ [][NextScoring]_vars

InitSpecResolve ==
    InitResolve /\ IdleNews /\ InitBucket /\ IdleKelly /\ IdleClassify
        /\ IdleAnalysis /\ IdleQuery /\ IdleRate /\ IdleOrder /\ IdleEval /\ IdleParse

SpecResolve == InitSpecResolve /\ [][NextResolve]_vars

InitSpecQuery ==
    InitQuery /\ IdleNews /\ InitBucket /\ InitRepo /\ IdleKelly
        /\ IdleClassify /\ IdleAnalysis /\ IdleRate /\ IdleResolve /\ IdleOrder /\ IdleEval /\ IdleParse

SpecQuery == InitSpecQuery /\ [][NextQuery]_vars

SpecBucket == InitSpecBucket /\ [][NextBucket]_vars

SpecEngine == InitSpecBucket /\ [][NextEngine]_vars

SpecRate == InitSpecBucket /\ [][NextRate]_vars

\* The event loop runs every task that can run, and time passes.
SpecBucketFair ==
    /\ SpecBucket
    /\ \A i \in Tasks : WF_vars(AcquireStep(i))
    /\ WF_vars(Tick)

NextNews ==
    \/ \E p \in Providers : ProviderReturns(p, ResultLists)
    \/ \E p \in Providers : ProviderRaises(p)
    \/ GatherReturns

NextNewsShort ==
    \/ \E p \in Providers : ProviderReturns(p, ShortLists)
    \/ \E p \in Providers : ProviderRaises(p)
    \/ GatherReturns

InitSpecNews == InitNews /\ InitBucket /\ InitRepo /\ IdleKelly /\ IdleRest

SpecNews == InitSpecNews /\ [][NextNews]_vars

InitSpecOrder ==
    InitOrder /\ IdleNews /\ InitBucket /\ InitRepo /\ IdleKelly
        /\ IdleClassify /\ IdleAnalysis /\ IdleQuery /\ IdleRate /\ IdleResolve /\ IdleEval /\ IdleParse

SpecOrder == InitSpecOrder /\ [][NextOrder]_vars

InitSpecEval ==
    InitEval /\ IdleNews /\ InitBucket /\ InitRepo /\ IdleKelly
        /\ IdleClassify /\ IdleAnalysis /\ IdleQuery /\ IdleRate /\ IdleResolve
        /\ IdleOrder /\ IdleParse

SpecEval == InitSpecEval /\ [][NextEval]_vars

InitSpecParse ==
    InitParse /\ IdleNews /\ InitBucket /\ InitRepo /\ IdleKelly
        /\ IdleClassify /\ IdleAnalysis /\ IdleQuery /\ IdleRate /\ IdleResolve
        /\ IdleOrder /\ IdleEval

SpecParse == InitSpecParse /\ [][NextParse]_vars

\* The event loop resumes fetch_articles_for_market once the gather is done.
\* No fairness for the providers: a call may stay pending for ever.
SpecNewsFair ==
    InitSpecNews /\ [][NextNewsShort]_vars /\ WF_vars(GatherReturns)

(***************************************************************************)
(* Claims about the news aggregation                                       *)
(***************************************************************************)

AllDone == \A p \in Providers : provStatus[p] \in {"ok", "failed"}

\* The provider lists in merge order, the lists of the providers of `ps` only.
RECURSIVE FlatFrom(_, _)
FlatFrom(p, ps) ==
    IF p > NumProviders THEN <<>>
    ELSE (IF p \in ps THEN provResult[p] ELSE <<>>) \o FlatFrom(p + 1, ps)

OkProviders == { p \in Providers : provStatus[p] = "ok" }
FailedProviders == { p \in Providers : provStatus[p] = "failed" }
Flat == FlatFrom(1, OkProviders)

\* The first article with URL u in merge order.
FirstWithUrl(u) ==
    Flat[CHOOSE i \in 1..Len(Flat) :
            /\ Flat[i].url = u
            /\ \A j \in 1..(i - 1) : Flat[j].url # u]

\* C1: whatever subset of the providers raised, the call does not raise, and
\* what it returns is what it returns when each of them returned an empty
\* list instead; when all of them raised it returns the empty list.
C1_FailuresIsolated ==
    /\ newsPc # "raised"
    /\ newsPc = "returned" =>
          /\ fetched = FetchResult([p \in Providers |-> "ok"],
                                   [p \in Providers |->
                                       IF provStatus[p] = "failed" THEN <<>>
                                       ELSE provResult[p]],
                                   max_articles)
          /\ (FailedProviders = Providers => fetched = <<>>)

C1_Witness ==
    /\ newsPc = "returned"
    /\ FailedProviders # {}
    /\ fetched # <<>>

\* C2: the returned list holds no URL twice, and each article in it is the
\* first one with its URL in merge order, whichever provider a later
\* duplicate came from.
C2_FirstSeenWins ==
    newsPc = "returned" =>
        /\ \A i, j \in 1..Len(fetched) : i # j => fetched[i].url # fetched[j].url
        /\ \A i \in 1..Len(fetched) :
              /\ \E k \in 1..Len(Flat) : Flat[k].url = fetched[i].url
              /\ fetched[i] = FirstWithUrl(fetched[i].url)

C2_Witness ==
    /\ newsPc = "returned"
    /\ \E p, q \in OkProviders :
          /\ p < q
          /\ \E a \in Range(provResult[p]), b \in Range(provResult[q]) :
                /\ a.url = b.url
                /\ a # b
                /\ a \in Range(fetched)

\* C3: the returned list is the first max_articles elements of the merged
\* list in descending order of timestamp, articles without one last: it has
\* min(max_articles, merged) elements, all from the merged list, in that
\* order, and no merged article left out is more recent than one kept.
C3_SortThenCap ==
    newsPc = "returned" =>
        LET merged == MergeDedup(Gathered(provStatus, provResult))
        IN  /\ Len(fetched) = Min(max_articles, Len(merged))
            /\ Len(fetched) <= max_articles
            /\ Range(fetched) \subseteq Range(merged)
            /\ \A i, j \in 1..Len(fetched) :
                  i < j => /\ SortKey(fetched[i]) >= SortKey(fetched[j])
                           /\ (fetched[i].published_at = <<>>
                                  => fetched[j].published_at = <<>>)
            /\ \A a \in Range(merged) \ Range(fetched) :
                  \A b \in Range(fetched) :
                     /\ SortKey(a) <= SortKey(b)
                     /\ (b.published_at = <<>> => a.published_at = <<>>)

C3_Witness ==
    /\ newsPc = "returned"
    /\ LET merged == MergeDedup(Gathered(provStatus, provResult))
       IN  /\ Len(merged) > max_articles
           /\ max_articles >= 1
           /\ merged[1].published_at = <<>>
           /\ fetched[1].published_at # <<>>

\* C4 as claimed: when one provider call never completes and every other
\* one completes, the call still returns.
C4_ReturnsDespiteHungProvider ==
    \A p \in Providers :
        ( /\ <>[](provStatus[p] = "pending")
          /\ <>[](\A q \in Providers \ {p} : provStatus[q] \in {"ok", "failed"}) )
        => <>(newsPc = "returned")

\* C4 as amended: the call returns once every provider call has completed
\* or failed and not while one is pending; what it returns then holds, up
\* to the cap, an article for every URL a completed provider returned.
C4_ReturnsOnceAllSettled ==
    /\ AllDone ~> (newsPc = "returned")
    /\ []((\E p \in Providers : provStatus[p] = "pending") => newsPc = "gathering")
    /\ [](newsPc = "returned" /\ max_articles >= Len(Flat) =>
            \A a \in Range(Flat) :
               a.url # "" => \E b \in Range(fetched) : b.url = a.url)

C4_Witness ==
    /\ newsPc = "returned"
    /\ Cardinality(FailedProviders) = 1
    /\ Len(fetched) = MaxTotal

(***************************************************************************)
(* Claims about the repository                                             *)
(***************************************************************************)

\* A step that is a call of resolve_prediction.
ResolveStep ==
    /\ lastCall'.op = "resolve"
    /\ now' = now
    /\ lastCall' # lastCall \/ rows' # rows

\* C8: a call of resolve_prediction leaves every row that is already
\* resolved as it is, and a call for a market that was resolved with no
\* prediction saved since returns 0 and changes no row, whatever winning
\* outcome it names.
C8_ResolveIdempotent ==
    [][ResolveStep =>
          /\ Len(rows') = Len(rows)
          /\ \A k \in 1..Len(rows) : rows[k].resolved = 1 => rows'[k] = rows[k]
          /\ lastCall'.condition_id \in resolvedSince =>
                 lastCall'.ret = 0 /\ rows' = rows]_vars

C8_Witness ==
    /\ lastCall.op = "resolve"
    /\ lastCall.ret = 0
    /\ \E k \in 1..Len(rows) :
          /\ rows[k].condition_id = lastCall.condition_id
          /\ rows[k].resolved = 1
          /\ rows[k].actual_outcome # <<lastCall.winning_outcome>>
          /\ rows[k].resolution_date # <<now>>

\* C9: resolve_prediction(m, w) updates exactly the unresolved rows of
\* market m: each becomes resolved with actual_outcome w and
\* brier_component (bot_probability - I)^2, I being 1 when the row's outcome
\* is w ignoring case and 0 otherwise; it returns their number; every other
\* row stays as it is.
C9_ResolveUpdatesUnresolvedRows ==
    [][ResolveStep =>
          LET m == lastCall'.condition_id
              w == lastCall'.winning_outcome
              unresolved == { k \in 1..Len(rows) :
                                rows[k].condition_id = m /\ rows[k].resolved = 0 }
              err(k) == IF Lower(rows[k].outcome) = Lower(w)
                        THEN rows[k].bot_probability - ProbScale
                        ELSE rows[k].bot_probability
          IN  /\ Len(rows') = Len(rows)
              /\ lastCall'.ret = Cardinality(unresolved)
              /\ \A k \in 1..Len(rows) :
                    IF k \in unresolved
                    THEN /\ rows'[k].resolved = 1
                         /\ rows'[k].actual_outcome = <<w>>
                         /\ rows'[k].brier_component = <<err(k) * err(k)>>
                         /\ rows'[k].condition_id = m
                         /\ rows'[k].outcome = rows[k].outcome
                         /\ rows'[k].bot_probability = rows[k].bot_probability
                    ELSE rows'[k] = rows[k]]_vars

\* The example: the market resolves "Yes"; the row "Yes" at 0.8 gets 0.04,
\* the row "No" at 0.3 gets 0.09.
C9_Witness ==
    /\ lastCall.op = "resolve"
    /\ lastCall.winning_outcome = "Yes"
    /\ lastCall.ret = 2
    /\ \E j, k \in 1..Len(rows) :
          /\ rows[j].outcome = "Yes" /\ rows[j].bot_probability = 8
          /\ rows[j].actual_outcome = <<"Yes">> /\ rows[j].brier_component = <<4>>
          /\ rows[k].outcome = "No" /\ rows[k].bot_probability = 3
          /\ rows[k].actual_outcome = <<"Yes">> /\ rows[k].brier_component = <<9>>

(***************************************************************************)
(* Claims about the LLM call and the token bucket                          *)
(***************************************************************************)

\* C5: an invocation of analyze_market issues at most one LLM request, and
\* only after its own acquire has returned with one token taken; when the
\* request fails the invocation has failed for good: no further request,
\* no result.
C5_OneRequestAfterAcquire ==
    /\ [](\A i \in Tasks :
            /\ requests[i] <= 1
            /\ requests[i] = 1 => taken[i] = TokenUnits
            /\ requests[i] = 1 <=> pc[i] \in {"llm", "done", "failed"})
    /\ [][\A i \in Tasks :
            pc[i] = "failed" => pc'[i] = "failed" /\ requests'[i] = requests[i]]_vars

C5_Witness ==
    \E i, j \in Tasks :
        /\ pc[i] = "failed"
        /\ requests[i] = 1
        /\ pc[j] = "sleep"

InCritical == { i \in Tasks : pc[i] \in {"refill", "check", "take"} }

\* C6: the token count stays within 0..capacity, at most one task is
\* between the refill and the decrement and it holds the lock, and a
\* granted acquire takes exactly the amount it asked for.
C6_TokensBoundedExclusive ==
    /\ [](0 <= tokens /\ tokens <= CapacityUnits)
    /\ [](Cardinality(InCritical) <= 1 /\ \A i \in InCritical : lock = i)
    /\ [][\A i \in Tasks :
            pc[i] # "acquired" /\ pc'[i] = "acquired" =>
                /\ tokens' = tokens - want[i]
                /\ taken'[i] = want[i]
                /\ tokens >= want[i]]_vars

C6_Witness ==
    \E i, j \in Tasks :
        /\ i # j
        /\ pc[i] = "acquired"
        /\ pc[j] = "acquired"
        /\ taken[i] + taken[j] > CapacityUnits

\* C7: every acquire call returns, and a task that sleeps for capacity
\* does not hold the lock.
C7_AcquireEventuallyReturns ==
    /\ \A i \in Tasks : (pc[i] \in {"lock", "refill", "check", "take", "sleep"})
                             ~> (pc[i] = "acquired")
    /\ [](\A i \in Tasks : pc[i] = "sleep" => lock # i)

C7_Witness ==
    \E i, j \in Tasks :
        /\ pc[i] = "sleep"
        /\ remaining[i] > 0
        /\ pc[j] \in {"refill", "check", "take"}

(***************************************************************************)
(* Claims about the Kelly stake                                            *)
(***************************************************************************)

InUnitClosed(x) == RLeq(Zero, x) /\ RLeq(x, One)
InUnitOpen(x) == RLess(Zero, x) /\ RLess(x, One)

\* C10: for every bot_prob in [0, 1] and every market_prob in (0, 1), what
\* compute_kelly returns is never negative and never exceeds 0.5.
C10_KellyWithinHalf ==
    (kellyPc = "returned" /\ InUnitClosed(bot_prob) /\ InUnitOpen(market_prob))
        => (RLeq(Zero, kelly_fraction) /\ RLeq(kelly_fraction, Half))

\* A certain outcome priced at 0.5 is staked at exactly the cap.
C10_Witness ==
    /\ kellyPc = "returned"
    /\ bot_prob = One
    /\ market_prob = Half
    /\ kelly_fraction = Half

\* The reference definition of the stake: f = (b*p - (1 - p)) / b with
\* b = (1 - m) / m.
KellyReference(p, m) ==
    LET b == RDiv(RSub(One, m), m)
        f == RDiv(RSub(RMul(b, p), RSub(One, p)), b)
    IN  RMul(RMax(Zero, f), <<1, 2>>)

\* C11: compute_kelly returns 0 whenever market_prob <= 0 or market_prob >= 1,
\* and otherwise max(0, f) * 0.5 of the reference definition.
C11_KellyMatchesReference ==
    kellyPc = "returned" =>
        IF InUnitOpen(market_prob)
        THEN kelly_fraction = KellyReference(bot_prob, market_prob)
        ELSE kelly_fraction = Zero

\* The example: bot_prob 0.70 at market_prob 0.50 is staked at 0.20.
C11_Witness ==
    /\ kellyPc = "returned"
    /\ bot_prob = <<7, 10>>
    /\ market_prob = <<1, 2>>
    /\ kelly_fraction = <<1, 5>>

(***************************************************************************)
(* Claims about the recommendation                                         *)
(***************************************************************************)

\* C12: classify_recommendation(ev) is STRONG_BUY iff ev > 0.10, BUY iff
\* 0.05 < ev <= 0.10, HOLD iff 0 < ev <= 0.05 and AVOID iff ev <= 0.
C12_ClassifyThresholds ==
    classifyPc = "returned" =>
        /\ recommendation = "STRONG_BUY" <=> RLess(<<10, 100>>, ev)
        /\ recommendation = "BUY" <=> (RLess(<<5, 100>>, ev) /\ RLeq(ev, <<10, 100>>))
        /\ recommendation = "HOLD" <=> (RLess(Zero, ev) /\ RLeq(ev, <<5, 100>>))
        /\ recommendation = "AVOID" <=> RLeq(ev, Zero)

\* The boundary case: ev = 0.10 exactly is BUY.
C12_Witness ==
    /\ classifyPc = "returned"
    /\ ev = <<1, 10>>
    /\ recommendation = "BUY"

(***************************************************************************)
(* Claims about the extracted probabilities and the ForecastResult         *)
(***************************************************************************)

\* C13: when at least one value was extracted and their sum S is strictly
\* between 0.9 and 1.1 and is not 1.0, every extracted value is divided by
\* S, so that the returned values sum to 1.0 and keep their pairwise ratios;
\* otherwise the returned values are the extracted values.
C13_NormaliseWhenClose ==
    \A r \in Runs :
        anPc[r] = "returned" =>
            LET ex == Extracted(response[r], Outcomes(market[r]))
                S == Total(ex)
            IN  IF /\ DOMAIN ex # {}
                   /\ RLess(<<9, 10>>, S) /\ RLess(S, <<11, 10>>)
                   /\ S # <<1, 1>>
                THEN /\ DOMAIN probs[r] = DOMAIN ex
                     /\ \A k \in DOMAIN ex : probs[r][k] = RDiv(ex[k], S)
                     /\ Total(probs[r]) = <<1, 1>>
                     /\ \A j, k \in DOMAIN ex :
                           RMul(probs[r][j], ex[k]) = RMul(probs[r][k], ex[j])
                ELSE probs[r] = ex

\* 0.6 and 0.45 sum to 1.05 and come back as 4/7 and 3/7, while in the
\* other run 0.6 and 0.25 sum to 0.85 and come back as they are.
C13_Witness ==
    /\ anPc = [r \in Runs |-> "returned"]
    /\ probs[1] = [o \in {"Yes", "No"} |-> IF o = "Yes" THEN <<4, 7>> ELSE <<3, 7>>]
    /\ probs[2] = [o \in {"Yes", "No"} |-> IF o = "Yes" THEN <<3, 5>> ELSE <<1, 4>>]

\* The outcomes of run r for which the response has no matching line.
Unmatched(r) ==
    { o \in Range(Outcomes(market[r])) :
        Search(ProbSection(response[r]), o) = << >> }

\* C14 as claimed: an outcome with no matching line is absent from the
\* mapping, and analyze_market gives it bot_probability 1 / num_outcomes,
\* never 0.
C14_MissingOutcomeGetsUniformPrior ==
    \A r \in Runs :
        anPc[r] = "returned" =>
            \A i \in 1..Len(market[r].tokens) :
                market[r].tokens[i].outcome \in Unmatched(r) =>
                    /\ market[r].tokens[i].outcome \notin DOMAIN probs[r]
                    /\ forecast[r].outcomes[i].bot_probability
                          = Frac(1, Len(market[r].tokens))
                    /\ forecast[r].outcomes[i].bot_probability # Zero

\* A ForecastResult without the text of the response: the fields a caller
\* reads the forecast from.
Metadata(f) ==
    [condition_id |-> f.condition_id, question |-> f.question, slug |-> f.slug,
     outcomes |-> f.outcomes, confidence |-> f.confidence,
     prompt_version |-> f.prompt_version,
     news_article_count |-> f.news_article_count]

\* C15 as claimed: the ForecastResult records which outcomes got an
\* extracted probability and which the default: two runs on the same market
\* whose results carry the same fields extracted the same outcomes.
C15_ExtractionMissRecorded ==
    (/\ anPc = [r \in Runs |-> "returned"]
     /\ market[1] = market[2]
     /\ Metadata(forecast[1]) = Metadata(forecast[2]))
        => Unmatched(1) = Unmatched(2)

\* C16: the outcomes of the ForecastResult are as many as the market's
\* tokens and the i-th carries the label of the i-th token.
C16_OutcomesFollowTokens ==
    \A r \in Runs :
        anPc[r] = "returned" =>
            /\ Len(forecast[r].outcomes) = Len(market[r].tokens)
            /\ \A i \in 1..Len(market[r].tokens) :
                  forecast[r].outcomes[i].outcome = market[r].tokens[i].outcome

\* A market whose two tokens carry the same label, one response that names
\* it and one that names nothing.
C16_Witness ==
    /\ anPc = [r \in Runs |-> "returned"]
    /\ Outcomes(market[1]) = <<"Yes", "Yes">>
    /\ DOMAIN probs[1] = {"Yes"}
    /\ Unmatched(2) = {"Yes"}
    /\ Len(forecast[1].outcomes) = 2
    /\ Len(forecast[2].outcomes) = 2

\* C19: two markets that differ in the prices of their tokens only, with
\* the same articles, are sent the same system and user prompt.
C19_PromptWithholdsPrices ==
    (/\ anPc = [r \in Runs |-> "returned"]
     /\ [market[1] EXCEPT !.tokens = Outcomes(market[1])]
           = [market[2] EXCEPT !.tokens = Outcomes(market[2])]
     /\ articles[1] = articles[2])
        => user_prompt[1] = user_prompt[2]

C19_Witness ==
    /\ anPc = [r \in Runs |-> "returned"]
    /\ \E i \in 1..Len(market[1].tokens) :
          market[1].tokens[i].price # market[2].tokens[i].price
    /\ articles[1] # <<>>
    /\ user_prompt[1] = user_prompt[2]
    /\ user_prompt[1].user.outcomes = <<"Yes", "No">>

(***************************************************************************)
(* Claims about articles without a URL                                     *)
(***************************************************************************)

\* C20 as claimed: an article with an empty URL that a provider returned is
\* never dropped by the merge: it is in the result whenever the cap leaves
\* room for every article returned.
C20_EmptyUrlArticleKept ==
    (newsPc = "returned" /\ max_articles >= Len(Flat)) =>
        \A a \in Range(Flat) : a.url = "" => a \in Range(fetched)

(***************************************************************************)
(* Claims about the repository statistics                                  *)
(***************************************************************************)

\* The resolved rows a query made with requester id u is about.
ResolvedFor(u) ==
    { k \in 1..Len(rows) :
        rows[k].resolved = 1 /\ (u # None => rows[k].telegram_user_id = u) }

\* The resolved rows of ResolvedFor(u) with i/10 <= bot_probability < (i+1)/10.
ExactBucket(i, u) ==
    { k \in ResolvedFor(u) :
        /\ i * ProbScale <= NumBuckets * rows[k].bot_probability
        /\ NumBuckets * rows[k].bot_probability < (i + 1) * ProbScale }

\* C17: get_calibration_data reports, for each of the ten buckets
\* [i/10, (i+1)/10), the mean bot_probability, the mean hit indicator and the
\* count over the resolved rows whose bot_probability lies in the bucket, and
\* omits every bucket with no such row.
C17_CalibrationBuckets ==
    lastCall.op = "get_calibration_data" =>
        LET u == lastCall.telegram_user_id
            ret == lastCall.ret
        IN /\ \A i \in 0..(NumBuckets - 1) :
                  (ExactBucket(i, u) # {}) <=>
                      (\E j \in 1..Len(ret) : ret[j].bucket_lower = Low(i))
           /\ \A j \in 1..Len(ret) :
                  \E i \in 0..(NumBuckets - 1) :
                      LET S == ExactBucket(i, u)
                      IN /\ ret[j].bucket_lower = Low(i)
                         /\ S # {}
                         /\ ret[j].count = Cardinality(S)
                         /\ ret[j].predicted_avg =
                                Frac(SumProb(S), Cardinality(S) * ProbScale)
                         /\ ret[j].actual_frequency =
                                Frac(Hits(S), Cardinality(S))

IsDigit(c) == c \in { "0", "1", "2", "3", "4", "5", "6", "7", "8", "9" }

\* Punctuation: what is neither a letter, a digit nor white space.
IsLetterDigitSpace(c) == IsUpper(c) \/ IsLower(c) \/ IsDigit(c) \/ IsSpace(c)

\* The position at which a query is first seen among the candidates.
FirstSeen(query, list) ==
    CHOOSE i \in 1..Len(list) :
        /\ LowerStr(list[i]) = LowerStr(query)
        /\ \A j \in 1..(i - 1) : LowerStr(list[j]) # LowerStr(query)

\* At most 3 queries, pairwise distinct ignoring case, in first-seen order.
CappedDistinctInOrder ==
    /\ Len(queries) <= 3
    /\ \A i, j \in 1..Len(queries) :
           i # j => LowerStr(queries[i]) # LowerStr(queries[j])
    /\ \A i \in 1..Len(queries) :
           \E k \in 1..Len(Candidates(questionText)) :
               Candidates(questionText)[k] = queries[i]
    /\ \A i, j \in 1..Len(queries) :
           i < j => FirstSeen(queries[i], Candidates(questionText))
                      < FirstSeen(queries[j], Candidates(questionText))

IsNotOfTheEightMarks(c) ==
    c \notin { "?", "!", ".", ",", ";", ":", "\"", "'" }

C22_PowellIsAnEntityQuery ==
    (queryPc = "returned" /\ questionText = PowellQuestion) =>
        /\ queries[1] =
               <<"W", "i", "l", "l", " ", "J", "e", "r", "o", "m", "e", " ",
                 "P", "o", "w", "e", "l", "l", " ", "r", "e", "s", "i", "g",
                 "n", " ", "b", "e", "f", "o", "r", "e", " ", "2", "0", "2",
                 "6">>
        /\ \E i \in 1..Len(queries) : queries[i] = <<"J", "e", "r", "o", "m", "e", " ", "P", "o", "w", "e", "l", "l">>

(***************************************************************************)
(* Claims about the rate of the token bucket                               *)
(***************************************************************************)

\* The acquire calls that returned at a time from t0 to t1.
ReturnsWithin(t0, t1) ==
    Cardinality({ k \in 1..Len(returnTimes) :
                    t0 <= returnTimes[k] /\ returnTimes[k] <= t1 })

\* C23: for any interleaving of concurrent acquire(1) calls on a bucket of
\* rate r and capacity c, the number of calls that return within any time
\* interval of length T is at most c + r * T (here in units, one token
\* being TokenUnits units).
C23_RateBound ==
    \A t0, t1 \in 0..MaxTime :
        t0 <= t1 =>
            TokenUnits * ReturnsWithin(t0, t1)
                <= CapacityUnits + RateUnits * (t1 - t0)

\* Three calls have returned, as fast as the bound allows: one at once and
\* one every 1 / r seconds after it.
C23_Witness ==
    /\ Len(returnTimes) = 3
    /\ TokenUnits * 3
           = CapacityUnits + RateUnits * (returnTimes[3] - returnTimes[1])

(***************************************************************************)
(* Claims about concurrent resolve_prediction calls                        *)
(***************************************************************************)

\* C24: under any interleaving of two concurrent resolve_prediction calls for
\* the same market, a row is never written by both calls, its
\* brier_component and actual_outcome never change after they were first
\* set, and once both calls have returned their counts sum to the number of
\* rows that were unresolved before.
C24_EachRowResolvedOnce ==
    [][ /\ \A k \in 1..Len(rows) : Cardinality(writers'[k]) <= 1
        /\ \A k \in 1..Len(rows) :
               rows[k].resolved = 1 =>
                   /\ rows'[k].brier_component = rows[k].brier_component
                   /\ rows'[k].actual_outcome = rows[k].actual_outcome
        /\ (\A c \in Callers : resolvePc'[c] = "returned") =>
               count'[1] + count'[2] = Len(rows) ]_vars

\* C25: two calls of fetch_articles_for_market whose providers end with the
\* same results return the same list, whatever the order in which the
\* coroutines completed in each call: the same duplicate of a shared URL is
\* kept and articles with equal or missing timestamps keep their order.
C25_CompletionOrderIndependent ==
    (gatherPc[1] = "returned" /\ gatherPc[2] = "returned")
        => returnedList[1] = returnedList[2]

\* Both calls returned, the coroutines having completed in different orders,
\* with a URL shared by two providers and two articles of equal timestamp.
C25_Witness ==
    /\ gatherPc[1] = "returned" /\ gatherPc[2] = "returned"
    /\ completedIn[1] = <<1, 2, 3, 4, 5>>
    /\ completedIn[2] = <<5, 4, 3, 2, 1>>
    /\ Len(outcomeOf[2].list) = 2
    /\ Len(returnedList[1]) = 4

\* The resolved rows get_win_rate counts whose Brier component was computed
\* with actual = 1.
ScoredAsHit(S) ==
    { k \in S : Actual(rows[k].outcome, rows[k].actual_outcome[1]) = 1 }

\* C26: for every resolved row, the hit indicator of get_win_rate and
\* get_calibration_data (outcome equal to the stored actual_outcome) has the
\* value of the indicator resolve_prediction computed the row's
\* brier_component with, so the wins get_win_rate returns are the rows scored
\* as hits.
C26_HitIndicatorsAgree ==
    /\ \A k \in 1..Len(rows) :
           rows[k].resolved = 1 =>
               /\ Hit(rows[k]) = Actual(rows[k].outcome, rows[k].actual_outcome[1])
               /\ rows[k].brier_component =
                      <<Brier(rows[k].bot_probability, Hit(rows[k]))>>
    /\ (lastCall.op = "get_win_rate" /\ lastCall.ret.total > 0) =>
           lastCall.ret.wins =
               <<Cardinality(ScoredAsHit(Recommended(lastCall.telegram_user_id)))>>

\* The sum of the counts of the first n returned buckets.
RECURSIVE SumCounts(_, _)
SumCounts(ret, n) == IF n = 0 THEN 0 ELSE ret[n].count + SumCounts(ret, n - 1)

\* C27: every resolved row in scope is counted in exactly one bucket of
\* get_calibration_data: the buckets are pairwise disjoint and the returned
\* counts sum to the number of resolved rows in scope, rows of
\* bot_probability 1.0 included.
C27_EachRowInOneBucket ==
    lastCall.op = "get_calibration_data" =>
        LET u == lastCall.telegram_user_id
            ret == lastCall.ret
        IN /\ \A i, j \in 0..(NumBuckets - 1) :
                  i # j => InBucket(i, u) \cap InBucket(j, u) = {}
           /\ SumCounts(ret, Len(ret)) = Cardinality(Scoped(u))
           /\ \A k \in Scoped(u) : \E i \in 0..(NumBuckets - 1) : k \in InBucket(i, u)

\* The row of bot_probability 1.0 alone, resolved and in scope: it is in no
\* bucket.
C27_CertainRowCounted ==
    (/\ lastCall.op = "get_calibration_data"
     /\ Len(rows) = 1
     /\ rows[1].bot_probability = ProbScale
     /\ rows[1].resolved = 1)
        => Len(lastCall.ret) = 1

AllAvoid(outcomes) ==
    \A i \in 1..Len(outcomes) : outcomes[i].recommendation = "AVOID"

\* STRONG_BUY above BUY above HOLD above AVOID.
Strength(rec) ==
    CASE rec = "STRONG_BUY" -> 3
      [] rec = "BUY" -> 2
      [] rec = "HOLD" -> 1
      [] OTHER -> 0

\* C28 as stated: in every OutcomeForecast the stored kelly_fraction is
\* positive exactly when the recommendation is not AVOID, the recommendation
\* is classify_recommendation of the stored ev_per_dollar, and
\* best_opportunity is None exactly when every recommendation is AVOID.
C28_StoredFieldsAgree ==
    /\ \A i \in 1..Len(outcome_forecasts) :
           LET of == outcome_forecasts[i]
           IN /\ Above(of.kelly_fraction, Zero) <=> of.recommendation # "AVOID"
              /\ of.recommendation = classify_recommendation(of.ev_per_dollar)
    /\ best # <<>> => (best[1] = None <=> AllAvoid(outcome_forecasts))

\* C28, amended: a positive stored kelly_fraction comes only with a
\* recommendation other than AVOID, the recommendation is never weaker than
\* classify_recommendation of the stored ev_per_dollar, and best_opportunity
\* is None whenever every recommendation is AVOID, its recommendation not
\* being AVOID when it is not None.
C28_StoredFieldsNeverStronger ==
    /\ \A i \in 1..Len(outcome_forecasts) :
           LET of == outcome_forecasts[i]
           IN /\ Above(of.kelly_fraction, Zero) => of.recommendation # "AVOID"
              /\ Strength(classify_recommendation(of.ev_per_dollar))
                     <= Strength(of.recommendation)
    /\ best # <<>> =>
           /\ AllAvoid(outcome_forecasts) => best[1] = None
           /\ best[1] # None => best[1].recommendation # "AVOID"

\* best_opportunity read from a result of two outcomes: one is AVOID, the
\* other is HOLD with an expected value of 1/30000, stored as 0.0 with a
\* kelly_fraction of 0.0; no opportunity is returned.
C28_Witness ==
    /\ best = << None >>
    /\ Len(outcome_forecasts) = 2
    /\ outcome_forecasts[1].recommendation = "AVOID"
    /\ outcome_forecasts[2].recommendation = "HOLD"
    /\ outcome_forecasts[2].ev_per_dollar = Zero
    /\ outcome_forecasts[2].kelly_fraction = Zero

\* The sum of the bot_probability values of the first n outcomes.
RECURSIVE SumBotProbability(_, _)
SumBotProbability(outcomes, n) ==
    IF n = 0 THEN Zero
    ELSE RAdd(outcomes[n].bot_probability, SumBotProbability(outcomes, n - 1))

\* The values the loop of _parse_probabilities extracted sum to a value in
\* (0.9, 1.1).
ExtractedSumIsClose(r) ==
    LET d == Extracted(response[r], Outcomes(market[r]))
    IN /\ DOMAIN d # {}
       /\ RLess(<<9, 10>>, Total(d))
       /\ RLess(Total(d), <<11, 10>>)

SumsToOne(r) ==
    /\ SumBotProbability(forecast[r].outcomes, Len(forecast[r].outcomes)) = One
    /\ \A i \in 1..Len(forecast[r].outcomes) :
           /\ RLeq(Zero, forecast[r].outcomes[i].bot_probability)
           /\ RLeq(forecast[r].outcomes[i].bot_probability, One)

\* C29 as stated: whenever the extracted values, of all the outcomes or of
\* some of them, sum to a value in (0.9, 1.1), the bot_probability values of
\* the returned ForecastResult sum to 1 and each lies in [0, 1].
C29_BotProbabilitiesSumToOne ==
    \A r \in Runs :
        (anPc[r] = "returned" /\ ExtractedSumIsClose(r)) => SumsToOne(r)

\* C29, amended: the same when a value was extracted for every outcome and
\* the outcome labels of the market are distinct.
C29_SumToOneWhenAllExtracted ==
    \A r \in Runs :
        (/\ anPc[r] = "returned"
         /\ ExtractedSumIsClose(r)
         /\ Unmatched(r) = {}
         /\ Cardinality(Range(Outcomes(market[r]))) = Len(market[r].tokens))
            => SumsToOne(r)

\* A market of two outcomes and a response whose two values sum to 1.05:
\* the forecast carries 0.6 / 1.05 and 0.45 / 1.05.
C29_Witness ==
    /\ anPc[1] = "returned"
    /\ Len(market[1].tokens) = 2
    /\ Total(Extracted(response[1], Outcomes(market[1]))) = Frac(105, 100)
    /\ Unmatched(1) = {}
    /\ forecast[1].outcomes[1].bot_probability = Frac(60, 105)
    /\ forecast[1].outcomes[2].bot_probability = Frac(45, 105)

\* The number on the line of the section that carries the outcome's label.
OwnLine(section, outcome) ==
    LET i == CHOOSE j \in 1..Len(section) : section[j].label = outcome
    IN NumberGroup(section[i].number)[1]

\* C30: when the text after the marker has exactly one "label: number" line
\* per outcome, in any order, _parse_probabilities assigns to each outcome
\* the number on that outcome's own line (rescaled when the sum is close to
\* 1), also when one label is a suffix of another and the longer label's line
\* comes first.
C30_EachOutcomeItsOwnLine ==
    parsePc = "returned" =>
        parsed = Normalised([o \in Range(parseOutcomes) |->
                                OwnLine(ProbSection(parseText), o)])

====
